---- MODULE Spec2Model ----
(***************************************************************************)
(* Model of the pruning schedulers and modifiers of                        *)
(* src/src/sparseml/keras/optim/modifier_pruning.py.                       *)
(*                                                                         *)
(* One object is under test at a time: obj is the object (a record tagged  *)
(* with its class in cls, [cls |-> "None"] before construction) and ret is *)
(* the outcome of the last call made on it: the operation, its arguments   *)
(* and either the returned value or the exception raised.                  *)
(*                                                                         *)
(* Python floats are modelled by exact rationals <<n, d>> in lowest terms  *)
(* (d > 0); the result of pow(x, 1/3) is a real a + b * m^(1/3) kept in    *)
(* canonical form (m cube-free), so that equality of model values is       *)
(* equality of the real numbers the code approximates.                     *)
(***************************************************************************)
EXTENDS Integers, Sequences, FiniteSets, TLC

VARIABLES obj, ret

vars == <<obj, ret>>

---------------------------------------------------------------------------
(* Bounds of the explored inputs *)

MaxStart == 1
MaxEnd == 3
MaxFreq == 2
MaxStep == 4
SparsityDen == 2
MaxTensorLen == 3

StartSteps == 0..MaxStart
EndSteps == 0..MaxEnd
FreqSteps == (0 - 1)..MaxFreq
Steps == (0 - 1)..MaxStep

---------------------------------------------------------------------------
(* Exact arithmetic standing for Python float arithmetic *)

Abs(x) == IF x < 0 THEN 0 - x ELSE x

RECURSIVE GCD(_, _)
GCD(a, b) == IF b = 0 THEN a ELSE GCD(b, a % b)

Rat(n, d) ==
    LET g == GCD(Abs(n), Abs(d))
        s == IF d < 0 THEN 0 - 1 ELSE 1
    IN  <<(s * n) \div g, (s * d) \div g>>

Zero == Rat(0, 1)
One == Rat(1, 1)

RAdd(x, y) == Rat(x[1] * y[2] + y[1] * x[2], x[2] * y[2])
RSub(x, y) == Rat(x[1] * y[2] - y[1] * x[2], x[2] * y[2])
RMul(x, y) == Rat(x[1] * y[1], x[2] * y[2])
RLe(x, y) == x[1] * y[2] <= y[1] * x[2]
RMin(x, y) == IF RLe(y, x) THEN y ELSE x
RMax(x, y) == IF RLe(x, y) THEN y ELSE x

RECURSIVE RPow(_, _)
RPow(x, k) == IF k = 0 THEN One ELSE RMul(x, RPow(x, k - 1))

(* a + b * m^(1/3), with b = 0 => m = 1 and otherwise m > 1 cube-free *)
FromRat(r) == [a |-> r, b |-> Zero, m |-> 1]

CubePart(q) ==
    CHOOSE c \in 1..q :
        /\ q % (c * c * c) = 0
        /\ \A e \in (c + 1)..q : q % (e * e * e) # 0

Cbrt(x) ==
    IF x[1] = 0 THEN FromRat(Zero)
    ELSE LET q == x[1] * x[2] * x[2]
             c == CubePart(q)
             m == q \div (c * c * c)
         IN  IF m = 1 THEN FromRat(Rat(c, x[2]))
             ELSE [a |-> Zero, b |-> Rat(c, x[2]), m |-> m]

(* pow(x, e) for 0 <= x and e an integer or 1/3 *)
pow(x, e) ==
    IF e[2] = 1 THEN FromRat(RPow(x, e[1])) ELSE Cbrt(x)

RealSubFrom(r, x) == [a |-> RSub(r, x.a), b |-> RSub(Zero, x.b), m |-> x.m]
RealAddRat(x, r) == [a |-> RAdd(x.a, r), b |-> x.b, m |-> x.m]
RealScale(k, x) ==
    IF k = Zero \/ x.b = Zero THEN FromRat(RMul(k, x.a))
    ELSE [a |-> RMul(k, x.a), b |-> RMul(k, x.b), m |-> x.m]

---------------------------------------------------------------------------
(* Outcomes of a call *)

PyNone == <<>>
Return(v) == [exc |-> "None", val |-> v]
Raise(e) == [exc |-> e, val |-> PyNone]

NoObject == [cls |-> "None"]
NoCall == [op |-> "none", args |-> <<>>, res |-> Return(PyNone)]

(* a run constructs one object; a constructor that raises leaves nothing *)
(* behind, so constructing again would start from the same state          *)
Fresh == obj.cls = "None" /\ ret.op = "none"

InterFuncs == {"linear", "cubic", "inverse_cubic", "quadratic"}
RecognisedInterFuncs == {"linear", "cubic", "inverse_cubic"}

(* sparsity arguments: k / SparsityDen, from just below 0 to just above 1 *)
SparsityGrid == {Rat(k, SparsityDen) : k \in (0 - 1)..(SparsityDen + 1)}

---------------------------------------------------------------------------
(* class FunctionalScheduler *)

FunctionalScheduler(i, f, s, e, u, fn) ==
    [cls |-> "FunctionalScheduler",
     init_sparsity |-> i, final_sparsity |-> f,
     start_step |-> s, end_step |-> e,
     update_frequency_steps |-> u, inter_func |-> fn]

(* variant: an unrecognised inter_func falls through to the linear exponent *)
FunctionalScheduler_exponent_fallthrough(self) ==
    IF self.inter_func = "cubic" THEN Return(Rat(3, 1))
    ELSE IF self.inter_func = "inverse_cubic" THEN Return(Rat(1, 3))
    ELSE Return(Rat(1, 1))

FunctionalScheduler_exponent(self) ==
    IF self.inter_func = "linear" THEN Return(Rat(1, 1))
    ELSE IF self.inter_func = "cubic" THEN Return(Rat(3, 1))
    ELSE IF self.inter_func = "inverse_cubic" THEN Return(Rat(1, 3))
    ELSE Raise("ValueError")

(* variant: the end step is not forced, it fires only on the frequency grid *)
FunctionalScheduler_should_prune_no_end(self, step) ==
    LET sched_start == step = self.start_step
        sched_end == step = self.end_step
        sched_active == step > self.start_step /\ step < self.end_step
        sched_active_inclusive == sched_active \/ sched_start \/ sched_end
        sched_update ==
            IF self.update_frequency_steps <= 0 THEN TRUE
            ELSE (step - self.start_step) % self.update_frequency_steps = 0
    IN  Return(sched_active_inclusive /\ (sched_start \/ sched_update))

FunctionalScheduler_should_prune(self, step) ==
    LET sched_start == step = self.start_step
        sched_end == step = self.end_step
        sched_active == step > self.start_step /\ step < self.end_step
        sched_active_inclusive == sched_active \/ sched_start \/ sched_end
        sched_update ==
            IF self.update_frequency_steps <= 0 THEN TRUE
            ELSE (step - self.start_step) % self.update_frequency_steps = 0
        sched_update_ready == sched_start \/ sched_end \/ sched_update
        update_ready == sched_active_inclusive /\ sched_update_ready
    IN  Return(update_ready)

(* variant: the curve is percentage ^ exponent, without the two reflections *)
FunctionalScheduler_target_sparsity_unreflected(self, step) ==
    IF self.end_step - self.start_step = 0 THEN Raise("ZeroDivisionError")
    ELSE
    LET percentage ==
            RMin(One, RMax(Zero, Rat(step - self.start_step,
                                     self.end_step - self.start_step)))
        exponent == FunctionalScheduler_exponent(self)
    IN  IF exponent.exc # "None" THEN exponent
        ELSE IF step < self.start_step THEN Return(FromRat(Zero))
        ELSE IF step = self.start_step THEN Return(FromRat(self.init_sparsity))
        ELSE IF step < self.end_step
        THEN Return(RealAddRat(
                 RealScale(RSub(self.final_sparsity, self.init_sparsity),
                           pow(percentage, exponent.val)),
                 self.init_sparsity))
        ELSE Return(FromRat(self.final_sparsity))

FunctionalScheduler_target_sparsity(self, step) ==
    LET sched_before == step < self.start_step
        sched_start == step = self.start_step
        sched_active == step > self.start_step /\ step < self.end_step
    IN  IF self.end_step - self.start_step = 0 THEN Raise("ZeroDivisionError")
        ELSE
        LET percentage ==
                RMin(One, RMax(Zero, Rat(step - self.start_step,
                                         self.end_step - self.start_step)))
            exponent == FunctionalScheduler_exponent(self)
        IN  IF exponent.exc # "None" THEN exponent
            ELSE
            LET exp_percentage ==
                    RealSubFrom(One, pow(RSub(One, percentage), exponent.val))
                calc_sparsity ==
                    RealAddRat(
                        RealScale(RSub(self.final_sparsity, self.init_sparsity),
                                  exp_percentage),
                        self.init_sparsity)
            IN  IF sched_before THEN Return(FromRat(Zero))
                ELSE IF sched_start THEN Return(FromRat(self.init_sparsity))
                ELSE IF sched_active THEN Return(calc_sparsity)
                ELSE Return(FromRat(self.final_sparsity))

FunctionalScheduler_init(i, f, s, e, u, fn) ==
    /\ Fresh
    /\ obj' = FunctionalScheduler(i, f, s, e, u, fn)
    /\ ret' = [op |-> "FunctionalScheduler.__init__",
               args |-> <<i, f, s, e, u, fn>>, res |-> Return(PyNone)]

Call_FunctionalScheduler_exponent ==
    /\ obj.cls = "FunctionalScheduler"
    /\ ret' = [op |-> "FunctionalScheduler.exponent", args |-> <<>>,
               res |-> FunctionalScheduler_exponent(obj)]
    /\ UNCHANGED obj

Call_FunctionalScheduler_should_prune(step) ==
    /\ obj.cls = "FunctionalScheduler"
    /\ ret' = [op |-> "FunctionalScheduler.should_prune", args |-> <<step>>,
               res |-> FunctionalScheduler_should_prune(obj, step)]
    /\ UNCHANGED obj

Call_FunctionalScheduler_target_sparsity(step) ==
    /\ obj.cls = "FunctionalScheduler"
    /\ ret' = [op |-> "FunctionalScheduler.target_sparsity", args |-> <<step>>,
               res |-> FunctionalScheduler_target_sparsity(obj, step)]
    /\ UNCHANGED obj

---------------------------------------------------------------------------
(* class SparsityFreezer *)

(* a tensor argument: None when omitted, else its flattened elements *)
NoTensor == [is_none |-> TRUE, data |-> <<>>]
Tensor(d) == [is_none |-> FALSE, data |-> d]
TensorValues == {0, 1}
Tensors ==
    {Tensor(d) : d \in UNION {[1..n -> TensorValues] : n \in 1..MaxTensorLen}}

SparsityFreezer(s, e) ==
    [cls |-> "SparsityFreezer", start_step |-> s, end_step |-> e]

(* variant: only the start step fires *)
SparsityFreezer_should_prune_start_only(self, step) ==
    Return(step = self.start_step)

SparsityFreezer_should_prune(self, step) ==
    Return(step = self.start_step \/ step = self.end_step)

(* reduce_sum(1.0 - cast(not_equal(tensor, 0.0))) over the first n elements *)
RECURSIVE reduce_sum_one_minus_mask(_, _)
reduce_sum_one_minus_mask(d, n) ==
    IF n = 0 THEN 0
    ELSE LET mask == IF d[n] # 0 THEN 1 ELSE 0
         IN  (1 - mask) + reduce_sum_one_minus_mask(d, n - 1)

SparsityFreezer_target_sparsity(self, step, tensor) ==
    IF tensor.is_none THEN Raise("ValueError")
    ELSE IF self.start_step <= step /\ step < self.end_step
    THEN Return(Rat(reduce_sum_one_minus_mask(tensor.data, Len(tensor.data)),
                    Len(tensor.data)))
    ELSE IF step = self.end_step THEN Return(Zero)
    ELSE Return(PyNone)

SparsityFreezer_init(s, e) ==
    /\ Fresh
    /\ obj' = SparsityFreezer(s, e)
    /\ ret' = [op |-> "SparsityFreezer.__init__", args |-> <<s, e>>,
               res |-> Return(PyNone)]

Call_SparsityFreezer_should_prune(step) ==
    /\ obj.cls = "SparsityFreezer"
    /\ ret' = [op |-> "SparsityFreezer.should_prune", args |-> <<step>>,
               res |-> SparsityFreezer_should_prune(obj, step)]
    /\ UNCHANGED obj

Call_SparsityFreezer_target_sparsity(step, tensor) ==
    /\ obj.cls = "SparsityFreezer"
    /\ ret' = [op |-> "SparsityFreezer.target_sparsity",
               args |-> <<step, tensor>>,
               res |-> SparsityFreezer_target_sparsity(obj, step, tensor)]
    /\ UNCHANGED obj

---------------------------------------------------------------------------
(* class GMPruningModifier: the fields validate() reads *)

(* a Python value with its type: floats on the grid, and the ints 0 and 1 *)
PyFloat(r) == [ty |-> "float", v |-> r]
PyInt(n) == [ty |-> "int", v |-> Rat(n, 1)]
SparsityArgs == {PyFloat(r) : r \in SparsityGrid} \cup {PyInt(0), PyInt(1)}

InUnitRange(x) == RLe(Zero, x.v) /\ RLe(x.v, One)

(* convert_to_bool of a Python bool is that bool *)
convert_to_bool(b) == IF b THEN TRUE ELSE FALSE

GMPruningModifier(i, f, fn, le) ==
    [cls |-> "GMPruningModifier",
     init_sparsity |-> i, final_sparsity |-> f,
     inter_func |-> fn, leave_enabled |-> le]

(* variant: final_sparsity is type-checked but its range is not *)
GMPruningModifier_validate_no_final_range(self) ==
    IF ~self.leave_enabled THEN "ValueError"
    ELSE IF self.init_sparsity.ty # "float" THEN "TypeError"
    ELSE IF ~InUnitRange(self.init_sparsity) THEN "ValueError"
    ELSE IF self.final_sparsity.ty # "float" THEN "TypeError"
    ELSE IF self.inter_func \notin {"linear", "cubic", "inverse_cubic"}
    THEN "ValueError"
    ELSE "None"

(* the exception validate() raises, "None" when it returns *)
GMPruningModifier_validate(self) ==
    IF ~self.leave_enabled THEN "ValueError"
    ELSE IF self.init_sparsity.ty # "float" THEN "TypeError"
    ELSE IF ~InUnitRange(self.init_sparsity) THEN "ValueError"
    ELSE IF self.final_sparsity.ty # "float" THEN "TypeError"
    ELSE IF ~InUnitRange(self.final_sparsity) THEN "ValueError"
    ELSE IF self.inter_func \notin {"linear", "cubic", "inverse_cubic"}
    THEN "ValueError"
    ELSE "None"

GMPruningModifier_exponent(self) ==
    IF self.inter_func = "linear" THEN Return(Rat(1, 1))
    ELSE IF self.inter_func = "cubic" THEN Return(Rat(3, 1))
    ELSE IF self.inter_func = "inverse_cubic" THEN Return(Rat(1, 3))
    ELSE Raise("ValueError")

Outcome(exc) == IF exc = "None" THEN Return(PyNone) ELSE Raise(exc)

(* __init__: a raising constructor leaves no object behind *)
GMPruningModifier_init(i, f, fn, le) ==
    LET self == GMPruningModifier(i, f, fn, convert_to_bool(le))
        exc == GMPruningModifier_validate(self)
    IN  /\ Fresh
        /\ obj' = IF exc = "None" THEN self ELSE obj
        /\ ret' = [op |-> "GMPruningModifier.__init__",
                   args |-> <<i, f, fn, le>>, res |-> Outcome(exc)]

(* the setters assign first and validate afterwards *)
GMPruningModifier_set_init_sparsity(value) ==
    LET self == [obj EXCEPT !.init_sparsity = value]
    IN  /\ obj.cls = "GMPruningModifier"
        /\ obj' = self
        /\ ret' = [op |-> "GMPruningModifier.init_sparsity.setter",
                   args |-> <<value>>,
                   res |-> Outcome(GMPruningModifier_validate(self))]

GMPruningModifier_set_final_sparsity(value) ==
    LET self == [obj EXCEPT !.final_sparsity = value]
    IN  /\ obj.cls = "GMPruningModifier"
        /\ obj' = self
        /\ ret' = [op |-> "GMPruningModifier.final_sparsity.setter",
                   args |-> <<value>>,
                   res |-> Outcome(GMPruningModifier_validate(self))]

GMPruningModifier_set_inter_func(value) ==
    LET self == [obj EXCEPT !.inter_func = value]
    IN  /\ obj.cls = "GMPruningModifier"
        /\ obj' = self
        /\ ret' = [op |-> "GMPruningModifier.inter_func.setter",
                   args |-> <<value>>,
                   res |-> Outcome(GMPruningModifier_validate(self))]

(* leave_enabled is defined twice in the class body; the second definition, *)
(* whose setter only assigns, is the one the class ends up with            *)
GMPruningModifier_set_leave_enabled(value) ==
    /\ obj.cls = "GMPruningModifier"
    /\ obj' = [obj EXCEPT !.leave_enabled = value]
    /\ ret' = [op |-> "GMPruningModifier.leave_enabled.setter",
               args |-> <<value>>, res |-> Return(PyNone)]

Call_GMPruningModifier_exponent ==
    /\ obj.cls = "GMPruningModifier"
    /\ ret' = [op |-> "GMPruningModifier.exponent", args |-> <<>>,
               res |-> GMPruningModifier_exponent(obj)]
    /\ UNCHANGED obj

---------------------------------------------------------------------------

Init ==
    /\ obj = NoObject
    /\ ret = NoCall

IsFS == obj.cls = "FunctionalScheduler"
IsFreezer == obj.cls = "SparsityFreezer"
IsGM == obj.cls = "GMPruningModifier"

Next ==
    \/ Fresh /\ \E i \in SparsityGrid, f \in SparsityGrid, s \in StartSteps,
                   e \in EndSteps, u \in FreqSteps, fn \in InterFuncs :
                     FunctionalScheduler_init(i, f, s, e, u, fn)
    \/ Call_FunctionalScheduler_exponent
    \/ IsFS /\ \E step \in Steps : Call_FunctionalScheduler_should_prune(step)
    \/ IsFS /\ \E step \in Steps : Call_FunctionalScheduler_target_sparsity(step)
    \/ Fresh /\ \E s \in StartSteps, e \in EndSteps : SparsityFreezer_init(s, e)
    \/ IsFreezer /\ \E step \in Steps : Call_SparsityFreezer_should_prune(step)
    \/ IsFreezer /\ \E step \in Steps, tensor \in Tensors \cup {NoTensor} :
                       Call_SparsityFreezer_target_sparsity(step, tensor)
    \/ Fresh /\ \E i \in SparsityArgs, f \in SparsityArgs, fn \in InterFuncs,
                   le \in BOOLEAN : GMPruningModifier_init(i, f, fn, le)
    \/ IsGM /\ \E value \in SparsityArgs :
                  GMPruningModifier_set_init_sparsity(value)
    \/ IsGM /\ \E value \in SparsityArgs :
                  GMPruningModifier_set_final_sparsity(value)
    \/ IsGM /\ \E value \in InterFuncs : GMPruningModifier_set_inter_func(value)
    \/ IsGM /\ \E value \in BOOLEAN : GMPruningModifier_set_leave_enabled(value)
    \/ Call_GMPruningModifier_exponent

Spec == Init /\ [][Next]_vars

---------------------------------------------------------------------------
(* Properties *)

(* the schedule of the spec's example: 0.0 -> 0.8 over steps 0..100, every 10 *)
ExampleScheduler(fn) ==
    FunctionalScheduler(Rat(0, 1), Rat(4, 5), 0, 100, 10, fn)

FSCall(op) == IsFS /\ ret.op = op

(* C1: for a FunctionalScheduler with start_step <= end_step, should_prune(step)
   is true exactly when step = start_step, or step = end_step, or step lies
   strictly between them and update_frequency_steps <= 0 or divides
   step - start_step; it is false outside [start_step, end_step]; the example
   schedule (0, 100, every 10) fires exactly at 0, 10, ..., 100. *)
C1_ShouldPruneSchedule ==
    /\ (FSCall("FunctionalScheduler.should_prune")
            /\ obj.start_step <= obj.end_step) =>
        LET step == ret.args[1]
            u == obj.update_frequency_steps
            expected ==
                \/ step = obj.start_step
                \/ step = obj.end_step
                \/ /\ obj.start_step < step /\ step < obj.end_step
                   /\ (u <= 0 \/ (step - obj.start_step) % u = 0)
        IN  /\ ret.res.exc = "None"
            /\ ret.res.val = expected
            /\ (step < obj.start_step \/ step > obj.end_step)
                   => ret.res.val = FALSE
    /\ Fresh =>
        \A step \in (0 - 5)..105 :
            FunctionalScheduler_should_prune(ExampleScheduler("linear"), step)
                = Return(step \in {10 * k : k \in 0..10})

C1_Witness ==
    /\ FSCall("FunctionalScheduler.should_prune")
    /\ obj.start_step = 0 /\ obj.end_step = 3
    /\ obj.update_frequency_steps = 2
    /\ ret.args[1] = 3
    /\ ret.res.val = TRUE

(* C2: for a FunctionalScheduler with start_step < end_step, target_sparsity(step)
   is 0.0 for every step < start_step, init_sparsity at step = start_step and
   final_sparsity for every step >= end_step. *)
C2_BoundarySparsity ==
    (FSCall("FunctionalScheduler.target_sparsity")
        /\ obj.start_step < obj.end_step) =>
        LET step == ret.args[1]
        IN  /\ step < obj.start_step => ret.res = Return(FromRat(Zero))
            /\ step = obj.start_step
                   => ret.res = Return(FromRat(obj.init_sparsity))
            /\ step >= obj.end_step
                   => ret.res = Return(FromRat(obj.final_sparsity))

(* the same statement for the schedulers whose inter_func is recognised *)
C2_BoundarySparsity_Recognised ==
    (IsFS /\ obj.inter_func \in RecognisedInterFuncs) => C2_BoundarySparsity

(* the cube of a real that is rational or a pure cube root *)
RealCube(x) ==
    IF x.b = Zero THEN RPow(x.a, 3) ELSE RMul(RPow(x.b, 3), Rat(x.m, 1))

(* C3: for a FunctionalScheduler and start_step < step < end_step, with
   p = (step - start_step) / (end_step - start_step), target_sparsity(step) is
   init + (final - init) * (1 - (1 - p)^exponent): init + (final - init) * p for
   linear, init + (final - init) * (1 - (1 - p)^3) for cubic, and for
   inverse_cubic the value v with (final - v)^3 = (final - init)^3 * (1 - p);
   the example schedule gives 0.4 at step 50 when linear. *)
C3_InterpolatedSparsity ==
    /\ (FSCall("FunctionalScheduler.target_sparsity")
            /\ obj.inter_func \in RecognisedInterFuncs
            /\ obj.start_step < ret.args[1] /\ ret.args[1] < obj.end_step) =>
        LET step == ret.args[1]
            init == obj.init_sparsity
            final == obj.final_sparsity
            span == RSub(final, init)
            p == Rat(step - obj.start_step, obj.end_step - obj.start_step)
            q == RSub(One, p)
            got == ret.res.val
            rest == RealSubFrom(final, got)
        IN  /\ ret.res.exc = "None"
            /\ obj.inter_func = "linear"
                   => got = FromRat(RAdd(init, RMul(span, p)))
            /\ obj.inter_func = "cubic"
                   => got = FromRat(RAdd(init,
                                RMul(span, RSub(One, RMul(q, RMul(q, q))))))
            /\ obj.inter_func = "inverse_cubic"
                   => /\ rest.a = Zero \/ rest.b = Zero
                      /\ RealCube(rest) = RMul(RPow(span, 3), q)
    /\ Fresh =>
        /\ FunctionalScheduler_target_sparsity(ExampleScheduler("linear"), 50)
               = Return(FromRat(Rat(2, 5)))
        /\ FunctionalScheduler_target_sparsity(ExampleScheduler("cubic"), 50)
               = Return(FromRat(Rat(7, 10)))

C3_Witness ==
    /\ FSCall("FunctionalScheduler.target_sparsity")
    /\ obj.inter_func = "inverse_cubic"
    /\ obj.start_step = 0 /\ obj.end_step = 3 /\ ret.args[1] = 1
    /\ obj.init_sparsity = Zero /\ obj.final_sparsity = One
    /\ ret.res.exc = "None"
    /\ ret.res.val.m > 1

(* C4: the exponent is 1.0 for linear, 3.0 for cubic and 1/3 for inverse_cubic;
   for any other inter_func an error is raised at construction (GMPruningModifier)
   or when exponent is read, and no numeric exponent is ever returned. *)
C4_Exponent ==
    /\ ret.op \in {"FunctionalScheduler.exponent", "GMPruningModifier.exponent"} =>
        /\ obj.inter_func = "linear" => ret.res = Return(Rat(1, 1))
        /\ obj.inter_func = "cubic" => ret.res = Return(Rat(3, 1))
        /\ obj.inter_func = "inverse_cubic" => ret.res = Return(Rat(1, 3))
        /\ obj.inter_func \notin RecognisedInterFuncs => ret.res.exc # "None"
    /\ (ret.op = "GMPruningModifier.__init__"
            /\ ret.args[3] \notin RecognisedInterFuncs) =>
        ret.res.exc # "None" /\ obj.cls = "None"

C4_Witness ==
    /\ FSCall("FunctionalScheduler.exponent")
    /\ obj.inter_func = "quadratic"
    /\ ret.res.exc = "ValueError"

InUnit(r) == RLe(Rat(0, 1), r) /\ RLe(r, Rat(1, 1))

(* C5: a FunctionalScheduler with an invalid configuration (unrecognised
   inter_func, init or final sparsity outside [0,1], start_step > end_step)
   fails at construction, so no scheduler object with such a configuration
   exists to be called. *)
C5_InvalidSchedulerRejected ==
    IsFS =>
        /\ obj.inter_func \in RecognisedInterFuncs
        /\ InUnit(obj.init_sparsity)
        /\ InUnit(obj.final_sparsity)
        /\ obj.start_step <= obj.end_step

GMConfigValid(i, f, fn, le) ==
    /\ le
    /\ i.ty = "float" /\ InUnit(i.v)
    /\ f.ty = "float" /\ InUnit(f.v)
    /\ fn \in RecognisedInterFuncs

(* C6: constructing a GMPruningModifier raises whenever leave_enabled is false,
   init_sparsity or final_sparsity is not a float in [0.0, 1.0], or inter_func
   is not linear, cubic or inverse_cubic; whenever construction succeeds, all
   four conditions hold of the stored configuration. *)
C6_ConstructorValidates ==
    ret.op = "GMPruningModifier.__init__" =>
        /\ ~GMConfigValid(ret.args[1], ret.args[2], ret.args[3], ret.args[4])
               => ret.res.exc # "None" /\ obj.cls = "None"
        /\ ret.res.exc = "None"
               => /\ IsGM
                  /\ GMConfigValid(obj.init_sparsity, obj.final_sparsity,
                                   obj.inter_func, obj.leave_enabled)

C6_Witness ==
    /\ ret.op = "GMPruningModifier.__init__"
    /\ ret.args[1] = PyFloat(Zero)
    /\ ret.args[2] = PyFloat(Rat(3, 2))
    /\ ret.args[3] = "cubic"
    /\ ret.args[4] = TRUE
    /\ ret.res.exc = "ValueError"
    /\ obj.cls = "None"

GMSetters ==
    {"GMPruningModifier.init_sparsity.setter",
     "GMPruningModifier.final_sparsity.setter",
     "GMPruningModifier.inter_func.setter",
     "GMPruningModifier.leave_enabled.setter"}

(* C7: on a constructed GMPruningModifier every setter call (init_sparsity,
   final_sparsity, inter_func, leave_enabled) whose new value makes the
   configuration invalid raises in that same call; in particular assigning
   leave_enabled = False raises. *)
C7_SetterRaisesOnInvalid ==
    (IsGM /\ ret.op \in GMSetters
        /\ ~GMConfigValid(obj.init_sparsity, obj.final_sparsity,
                          obj.inter_func, obj.leave_enabled))
        => ret.res.exc # "None"

(* the same statement for the three setters that call validate() *)
C7_ValidatingSettersRaise ==
    ret.op # "GMPruningModifier.leave_enabled.setter"
        => C7_SetterRaisesOnInvalid

FreezerCall(op) == IsFreezer /\ ret.op = op

(* C8: for a SparsityFreezer, should_prune(step) is true exactly when
   step = start_step or step = end_step. *)
C8_FreezerShouldPrune ==
    FreezerCall("SparsityFreezer.should_prune") =>
        /\ ret.res.exc = "None"
        /\ ret.res.val = TRUE <=> ret.args[1] \in {obj.start_step, obj.end_step}

C8_Witness ==
    /\ FreezerCall("SparsityFreezer.should_prune")
    /\ obj.start_step < obj.end_step
    /\ ret.args[1] = obj.end_step
    /\ ret.res.val = TRUE

ZeroCount(d) == Cardinality({k \in DOMAIN d : d[k] = 0})

(* C9: for a SparsityFreezer given a tensor, target_sparsity(step, tensor)
   is the fraction of exactly-zero elements for start_step <= step < end_step,
   0.0 at step = end_step, and None for step < start_step or
   step > end_step. *)
C9_FreezerTargetSparsity ==
    (FreezerCall("SparsityFreezer.target_sparsity") /\ ~ret.args[2].is_none) =>
        LET step == ret.args[1]
            data == ret.args[2].data
        IN  /\ (obj.start_step <= step /\ step < obj.end_step)
                   => ret.res = Return(Rat(ZeroCount(data), Len(data)))
            /\ step = obj.end_step => ret.res = Return(Rat(0, 1))
            /\ (step < obj.start_step \/ step > obj.end_step)
                   => ret.res = Return(PyNone)

(* what the code does: the three cases are tried in this order, so the value
   at step = end_step is 0.0 also when end_step lies before start_step, a
   configuration __init__ (lines 167-173) accepts; on the freezers with
   start_step <= end_step the cases exclude one another and the values are
   the ones above *)
C9_CasesInOrder ==
    (FreezerCall("SparsityFreezer.target_sparsity") /\ ~ret.args[2].is_none) =>
        LET step == ret.args[1]
            data == ret.args[2].data
        IN  /\ (obj.start_step <= step /\ step < obj.end_step)
                   => ret.res = Return(Rat(ZeroCount(data), Len(data)))
            /\ step = obj.end_step => ret.res = Return(Rat(0, 1))
            /\ ((step < obj.start_step \/ step > obj.end_step)
                    /\ step # obj.end_step)
                   => ret.res = Return(PyNone)

(* the state the code reaches and the claim excludes *)
C9_ZeroBeforeStart ==
    /\ FreezerCall("SparsityFreezer.target_sparsity")
    /\ obj.start_step = 1 /\ obj.end_step = 0 /\ ret.args[1] = 0
    /\ ~ret.args[2].is_none
    /\ ret.res = Return(Rat(0, 1))

(* C10: SparsityFreezer.target_sparsity (start_step <= end_step) without a
   tensor raises when start_step <= step < end_step, and only then: for a step
   before start_step or after end_step it returns None without raising, with
   or without a tensor. *)
C10_RaisesOnlyInWindow ==
    (FreezerCall("SparsityFreezer.target_sparsity")
        /\ obj.start_step <= obj.end_step) =>
        LET step == ret.args[1]
            in_window == obj.start_step <= step /\ step < obj.end_step
        IN  /\ ret.res.exc # "None" <=> (ret.args[2].is_none /\ in_window)
            /\ (step < obj.start_step \/ step > obj.end_step)
                   => ret.res = Return(PyNone)

(* what the code does instead: it raises exactly when the tensor is omitted *)
C10_RaisesWheneverTensorOmitted ==
    FreezerCall("SparsityFreezer.target_sparsity") =>
        (ret.res.exc # "None" <=> ret.args[2].is_none)

---------------------------------------------------------------------------
(* ModuleParamKSMask (pytorch/recal/mask_ks.py) and the unstructured mask
   creator.  Their source is not part of the tree under src/; the operators
   below follow the behavioural description of the mask (construction,
   enabled flag, set_param_mask, set_param_mask_from_sparsity, apply, reset)
   and the calls made on it by test_mask_ks.py and sensitivity_ks.py.
   A tensor is a flat sequence of integers, a mask a sequence of BOOLEAN of
   the same length. *)

MaxLayers == 2
MaxStepsPerMeasurement == 2

(* Python's round() of a non-negative rational: half rounds to even *)
round(x) ==
    LET fl == x[1] \div x[2]
        twice == 2 * (x[1] % x[2])
    IN  IF twice < x[2] THEN fl
        ELSE IF twice > x[2] THEN fl + 1
        ELSE IF fl % 2 = 0 THEN fl ELSE fl + 1

(* the position of element i in the stable ascending sort of |t|, from 0 *)
SortedRank(t, i) ==
    Cardinality({j \in DOMAIN t :
        \/ Abs(t[j]) < Abs(t[i])
        \/ Abs(t[j]) = Abs(t[i]) /\ j < i})

AllTrue(n) == [i \in 1..n |-> TRUE]

(* the rank round(sparsity * n), clamped to the last index *)
SparsityRank(sparsity, n) ==
    LET r == round(RMul(sparsity, Rat(n, 1)))
    IN  IF r >= n THEN n - 1 ELSE r

(* UnstructuredSparsityMaskCreator.create_sparsity_mask: the elements below
   the rank round(sparsity * n) of the ascending order of |t| are masked;
   a sparsity <= 0 keeps everything *)
create_sparsity_mask(t, sparsity) ==
    IF RLe(sparsity, Zero) \/ Len(t) = 0 THEN AllTrue(Len(t))
    ELSE [i \in 1..Len(t) |->
              ~(SortedRank(t, i) < SparsityRank(sparsity, Len(t)))]

(* The mask creators (pytorch/recal/sparsity_mask.py): Unstructured,
   Dimension and Block.  Their source is not part of the tree under src/;
   the operators follow their description and the calls of test_mask_ks.py.
   A tensor is flat; a Block creator of size k groups k consecutive
   elements (one tile), a Dimension creator over a dimension of extent k
   groups the elements that share the index along it (every k-th element). *)

MaskCreators ==
    {[kind |-> "unstructured", k |-> 1], [kind |-> "block", k |-> 2],
     [kind |-> "dimension", k |-> 2]}

(* the tensors handed to the creators: with zeros, ties and both signs *)
CreatorValues == {0, 1, 0 - 2}
CreatorTensors == UNION {[1..n -> CreatorValues] : n \in {4, 6}}

CreatorThresholds == {Rat(0, 1), Rat(1, 2), Rat(1, 1), Rat(2, 1)}

(* the group an element belongs to *)
GroupOf(c, i) ==
    IF c.kind = "unstructured" THEN i
    ELSE IF c.kind = "block" THEN ((i - 1) \div c.k) + 1
    ELSE ((i - 1) % c.k) + 1

GroupsOf(c, n) == {GroupOf(c, i) : i \in 1..n}

Members(c, n, g) == {i \in 1..n : GroupOf(c, i) = g}

RECURSIVE SetSumAbs(_, _)
SetSumAbs(t, s) ==
    IF s = {} THEN 0
    ELSE LET i == CHOOSE x \in s : TRUE
         IN  Abs(t[i]) + SetSumAbs(t, s \ {i})

(* the score of a group: the mean of the absolute values of its elements *)
GroupScore(c, t, g) ==
    Rat(SetSumAbs(t, Members(c, Len(t), g)),
        Cardinality(Members(c, Len(t), g)))

(* _group_tensor: every element replaced by the score of its group *)
group_tensor(c, t) == [i \in 1..Len(t) |-> GroupScore(c, t, GroupOf(c, i))]

(* variant: every element is compared on its own *)
create_sparsity_mask_from_abs_threshold_ungrouped(c, t, threshold) ==
    [i \in 1..Len(t) |-> ~RLe(Rat(Abs(t[i]), 1), threshold)]

(* create_sparsity_mask_from_abs_threshold: a group is kept when its score
   is above the threshold *)
create_sparsity_mask_from_abs_threshold(c, t, threshold) ==
    [i \in 1..Len(t) |-> ~RLe(group_tensor(c, t)[i], threshold)]

(* the position of a group in the stable ascending sort of the scores *)
GroupRank(c, t, g) ==
    Cardinality({h \in GroupsOf(c, Len(t)) :
        \/ /\ RLe(GroupScore(c, t, h), GroupScore(c, t, g))
           /\ GroupScore(c, t, h) # GroupScore(c, t, g)
        \/ GroupScore(c, t, h) = GroupScore(c, t, g) /\ h < g})

(* variant: the group at the rank itself is masked too *)
grouped_create_sparsity_mask_inclusive(c, t, sparsity) ==
    IF RLe(sparsity, Zero) THEN AllTrue(Len(t))
    ELSE LET r == SparsityRank(sparsity, Cardinality(GroupsOf(c, Len(t))))
         IN  [i \in 1..Len(t) |-> ~(GroupRank(c, t, GroupOf(c, i)) <= r)]

(* create_sparsity_mask of a creator: the groups below the rank
   round(sparsity * num_groups) of the ascending order of scores are masked *)
grouped_create_sparsity_mask(c, t, sparsity) ==
    IF RLe(sparsity, Zero) THEN AllTrue(Len(t))
    ELSE LET r == SparsityRank(sparsity, Cardinality(GroupsOf(c, Len(t))))
         IN  [i \in 1..Len(t) |-> ~(GroupRank(c, t, GroupOf(c, i)) < r)]

(* the creators by the names of their classes *)
UnstructuredSparsityMaskCreator == [kind |-> "unstructured", k |-> 1]
NoCreator == [kind |-> "none", k |-> 0]

(* a mask object; NoMask stands for "no such object" *)
NoMask ==
    [exists |-> FALSE, store_init |-> FALSE, init |-> PyNone,
     mask_creator |-> NoCreator, mask |-> PyNone, enabled |-> FALSE]

(* ModuleParamKSMask(layer, store_init=..., mask_creator=...): all elements
   kept, disabled, the original values captured when store_init is set *)
ModuleParamKSMask(param, store_init, mask_creator) ==
    [exists |-> TRUE, store_init |-> store_init,
     init |-> IF store_init THEN param ELSE PyNone,
     mask_creator |-> mask_creator,
     mask |-> AllTrue(Len(param)), enabled |-> FALSE]

(* variant: the mask is applied whether enabled or not *)
ModuleParamKSMask_apply_always(m, param) ==
    [i \in 1..Len(param) |-> IF m.mask[i] THEN param[i] ELSE 0]

(* apply(): the parameter after the call *)
ModuleParamKSMask_apply(m, param) ==
    IF m.enabled
    THEN [i \in 1..Len(param) |-> IF m.mask[i] THEN param[i] ELSE 0]
    ELSE param

BoolToInt(b) == IF b THEN 1 ELSE 0

(* variant: the difference old - new *)
mask_difference_reversed(old, new) ==
    [i \in 1..Len(new) |-> BoolToInt(old[i]) - BoolToInt(new[i])]

(* the per-element difference new - old of two masks *)
mask_difference(old, new) ==
    [i \in 1..Len(new) |-> BoolToInt(new[i]) - BoolToInt(old[i])]

(* set_param_mask(value): installs the mask, applies it, returns the diff *)
ModuleParamKSMask_set_param_mask(m, param, value) ==
    LET m2 == [m EXCEPT !.mask = value]
    IN  [m |-> m2, param |-> ModuleParamKSMask_apply(m2, param),
         res |-> Return(mask_difference(m.mask, value))]

(* set_param_mask_from_sparsity(sparsity): the mask the object's creator
   makes for the live values is installed *)
ModuleParamKSMask_set_param_mask_from_sparsity(m, param, sparsity) ==
    ModuleParamKSMask_set_param_mask(
        m, param, grouped_create_sparsity_mask(m.mask_creator, param, sparsity))

(* set_param_mask_from_abs_threshold(threshold) *)
ModuleParamKSMask_set_param_mask_from_abs_threshold(m, param, threshold) ==
    ModuleParamKSMask_set_param_mask(
        m, param,
        create_sparsity_mask_from_abs_threshold(m.mask_creator, param,
                                                threshold))

(* variant: reset leaves the parameter as it is *)
ModuleParamKSMask_reset_keep(m, param) ==
    IF m.init = PyNone
    THEN [m |-> m, param |-> param, res |-> Raise("StateError")]
    ELSE [m |-> m, param |-> param, res |-> Return(PyNone)]

(* reset(): the captured original values are put back *)
ModuleParamKSMask_reset(m, param) ==
    IF m.init = PyNone
    THEN [m |-> m, param |-> param, res |-> Raise("StateError")]
    ELSE [m |-> m, param |-> m.init, res |-> Return(PyNone)]

(* the enabled setter *)
ModuleParamKSMask_set_enabled(m, value) == [m EXCEPT !.enabled = value]

---------------------------------------------------------------------------
(* one_shot_ks_loss_sensitivity and its callback (sensitivity_ks.py).
   The object under test is the running analysis: the arguments, the weights
   of the prunable layers, the closure variables of _sensitivity_callback,
   the masks it creates (kept here after "del current_mask" so that their
   last state stays visible), the report, and the tester's progress. *)

(* sequence index as Python evaluates seq[i] *)
PyIndex(seq, i) == IF i < 0 THEN seq[Len(seq) + i + 1] ELSE seq[i + 1]

(* the weights the layers of the analysed module may hold *)
LayerWeights == {<<3, 0 - 1, 2>>, <<0, 2, 0 - 1, 1>>, <<1, 1>>}

(* the sweeps tried: ascending (the default order), starting above zero,
   descending, a repeated level *)
SweepLists ==
    {<<Rat(0, 1), Rat(1, 2), Rat(9, 10)>>, <<Rat(0, 1), Rat(1, 2)>>,
     <<Rat(1, 2), Rat(1, 1)>>, <<Rat(1, 2), Rat(0, 1)>>,
     <<Rat(1, 2), Rat(1, 2)>>, <<Rat(1, 4)>>}

SeqsUpTo(S, n) == UNION {[1..k -> S] : k \in 1..n}

(* ---- the data feed: infinite_data_loader(data, early_stop_steps, cache=True),
   not part of the tree under src/.  The first pass reads early_stop_steps
   batches of the data set and caches them, every later pass replays the
   cache.  A batch is named by its position in the data set. *)
NewLoader == [cached |-> <<>>, pos |-> 1]

infinite_data_loader_next(ld, early_stop_steps) ==
    IF Len(ld.cached) < early_stop_steps
    THEN [batch |-> Len(ld.cached) + 1,
          ld |-> [ld EXCEPT !.cached = Append(@, Len(ld.cached) + 1)]]
    ELSE [batch |-> ld.cached[ld.pos],
          ld |-> [ld EXCEPT !.pos = (ld.pos % early_stop_steps) + 1]]

(* ---- complete_measurement(), lines 88-151 *)

(* lines 108-112: the finished measurement joins the layer's list *)
complete_measurement_record(o) ==
    IF /\ o.measurement_steps >= 0
       /\ 0 <= o.layer_index /\ o.layer_index < Len(o.prunable_layers)
    THEN [o EXCEPT !.current_meas =
              Append(@, <<PyIndex(o.sparsity_levels, o.sparsity_index),
                          o.sparsity_results>>)]
    ELSE o

(* variant: the step counter restarts at one *)
complete_measurement_advance_from_one(o) ==
    [o EXCEPT !.measurement_steps = 1,
              !.sparsity_index = @ + 1,
              !.sparsity_results = <<>>]

(* lines 114-116 *)
complete_measurement_advance(o) ==
    [o EXCEPT !.measurement_steps = 0,
              !.sparsity_index = @ + 1,
              !.sparsity_results = <<>>]

(* the effect of a mask operation on the layer the mask belongs to *)
WithMask(o, k, r) ==
    [o EXCEPT !.masks[k] = r.m, !.param[k] = r.param]

(* line 121: the next level on the same layer *)
complete_measurement_next_level(o) ==
    WithMask(o, o.current_mask,
        ModuleParamKSMask_set_param_mask_from_sparsity(
            o.masks[o.current_mask], o.param[o.current_mask],
            PyIndex(o.sparsity_levels, o.sparsity_index)))

(* lines 123-128: the layer's list joins the report *)
complete_measurement_add_result(o) ==
    IF o.current_meas # <<>> /\ o.layer_index < Len(o.prunable_layers)
    THEN [o EXCEPT !.analysis =
              Append(@, [name |-> <<PyIndex(o.prunable_layers, o.layer_index),
                                    "weight">>,
                         index |-> o.sparsity_index,
                         meas |-> o.current_meas])]
    ELSE o

(* variant: the mask is switched off, the weights are not put back *)
complete_measurement_release_no_reset(o) ==
    IF o.current_mask # 0
    THEN LET k == o.current_mask
         IN  [o EXCEPT !.masks[k] =
                           ModuleParamKSMask_set_enabled(o.masks[k], FALSE),
                       !.current_mask = 0]
    ELSE o

(* lines 134-138: the mask of the finished layer is switched off and reset *)
complete_measurement_release(o) ==
    IF o.current_mask # 0
    THEN LET k == o.current_mask
             off == ModuleParamKSMask_set_enabled(o.masks[k], FALSE)
         IN  [WithMask(o, k, ModuleParamKSMask_reset(off, o.param[k]))
                 EXCEPT !.current_mask = 0]
    ELSE o

(* variant: the first level of a layer is not applied *)
complete_measurement_new_mask_unset(o) ==
    IF o.layer_index < Len(o.prunable_layers)
    THEN LET k == o.layer_index + 1
             on == ModuleParamKSMask_set_enabled(
                       ModuleParamKSMask(o.param[k], TRUE,
                           UnstructuredSparsityMaskCreator), TRUE)
         IN  [o EXCEPT !.masks[k] = on, !.current_mask = k]
    ELSE o

(* lines 140-151: the mask of the next layer *)
complete_measurement_new_mask(o) ==
    IF o.layer_index < Len(o.prunable_layers)
    THEN LET k == o.layer_index + 1
             on == ModuleParamKSMask_set_enabled(
                       ModuleParamKSMask(o.param[k], TRUE,
                           UnstructuredSparsityMaskCreator), TRUE)
             level == PyIndex(o.sparsity_levels, o.sparsity_index)
             c == [o EXCEPT !.masks[k] = on, !.current_mask = k]
         IN  IF ~RLe(level, Zero)
             THEN WithMask(c, k,
                      ModuleParamKSMask_set_param_mask_from_sparsity(
                          on, o.param[k], level))
             ELSE c
    ELSE o

(* lines 123-151 *)
complete_measurement_next_layer(o) ==
    LET a == complete_measurement_add_result(o)
        b == [a EXCEPT !.sparsity_index = 0,
                       !.current_meas = <<>>,
                       !.layer_index = @ + 1]
    IN  complete_measurement_new_mask(complete_measurement_release(b))

complete_measurement(o) ==
    LET a == complete_measurement_advance(complete_measurement_record(o))
    IN  IF /\ 0 <= a.sparsity_index
           /\ a.sparsity_index < Len(a.sparsity_levels)
           /\ 0 <= a.layer_index
           /\ a.layer_index < Len(a.prunable_layers)
        THEN complete_measurement_next_level(a)
        ELSE complete_measurement_next_layer(a)

(* variant: a measurement ends one batch late *)
batch_end_late(o, losses) ==
    LET a == [o EXCEPT !.measurement_steps = @ + 1,
                       !.sparsity_results = Append(@, losses)]
    IN  IF a.measurement_steps > a.steps_per_measurement
        THEN complete_measurement(a)
        ELSE a

(* batch_end(), lines 155-163 *)
batch_end(o, losses) ==
    LET a == [o EXCEPT !.measurement_steps = @ + 1,
                       !.sparsity_results = Append(@, losses)]
    IN  IF a.measurement_steps >= a.steps_per_measurement
        THEN complete_measurement(a)
        ELSE a

(* completed(), lines 165-168 *)
completed(o) == complete_measurement(o)

(* _sensitivity_callback, lines 74-86 and 153: the closure after the first
   complete_measurement() *)
sensitivity_callback(names, weights, sparsity_levels, steps_per_measurement) ==
    complete_measurement(
        [cls |-> "one_shot_ks_loss_sensitivity",
         prunable_layers |-> names,
         sparsity_levels |-> sparsity_levels,
         steps_per_measurement |-> steps_per_measurement,
         param |-> weights,
         masks |-> [k \in 1..Len(names) |-> NoMask],
         measurement_steps |-> 0,
         layer_index |-> 0 - 1,
         sparsity_index |-> 0 - 1,
         sparsity_results |-> PyNone,
         current_mask |-> 0,
         current_meas |-> PyNone,
         analysis |-> <<>>,
         loader |-> NewLoader,
         steps |-> 0,
         pc |-> "run"])

(* variant: the run is as long as the sweep of one layer *)
max_steps_one_layer(o) ==
    o.steps_per_measurement * Len(o.sparsity_levels)

(* max_steps of tester.run, lines 230-236 *)
max_steps(o) ==
    o.steps_per_measurement * Len(o.sparsity_levels) * Len(o.prunable_layers)

(* what the tester hands to the batch-end hook for one batch: the loss is
   decided by the batch and by the masked weights; step numbers the event *)
Loss(o, batch) ==
    [step |-> o.steps + 1, batch |-> batch,
     layer |-> o.current_mask - 1,
     mask |-> IF o.current_mask # 0 /\ o.masks[o.current_mask].enabled
              THEN o.masks[o.current_mask].mask ELSE PyNone,
     param |-> o.param]

LayerNames(n) == [k \in 1..n |-> k]

IsOneShot == obj.cls = "one_shot_ks_loss_sensitivity"

(* lines 210-229: the analysis starts *)
one_shot_ks_loss_sensitivity(weights, sparsity_levels, steps_per_measurement) ==
    /\ obj' = sensitivity_callback(LayerNames(Len(weights)), weights,
                  sparsity_levels, steps_per_measurement)
    /\ ret' = [op |-> "one_shot_ks_loss_sensitivity",
               args |-> <<weights, sparsity_levels, steps_per_measurement>>,
               res |-> Return(PyNone)]

(* one batch of tester.run: the feed yields a batch, the hook receives its loss *)
Tester_batch ==
    /\ IsOneShot /\ obj.pc = "run" /\ obj.steps < max_steps(obj)
    /\ LET nx == infinite_data_loader_next(obj.loader,
                     obj.steps_per_measurement)
           losses == Loss(obj, nx.batch)
       IN  /\ obj' = [batch_end(obj, losses)
                         EXCEPT !.loader = nx.ld, !.steps = @ + 1]
           /\ ret' = [op |-> "batch_end", args |-> <<losses>>,
                      res |-> Return(PyNone)]

(* lines 237-240: the run is over, completed() is called, the report returned *)
Tester_completed ==
    /\ IsOneShot /\ obj.pc = "run" /\ obj.steps = max_steps(obj)
    /\ obj' = [completed(obj) EXCEPT !.pc = "done"]
    /\ ret' = [op |-> "completed", args |-> <<>>,
               res |-> Return(completed(obj).analysis)]

InitOneShot == Init

NextOneShot ==
    \/ Fresh /\ \E weights \in SeqsUpTo(LayerWeights, MaxLayers),
                   sparsity_levels \in SweepLists,
                   steps_per_measurement \in 1..MaxStepsPerMeasurement :
           one_shot_ks_loss_sensitivity(weights, sparsity_levels,
               steps_per_measurement)
    \/ Tester_batch
    \/ Tester_completed

SpecOneShot == InitOneShot /\ [][NextOneShot]_vars

---------------------------------------------------------------------------
(* Properties of the one-shot analysis *)

OneShotRunning == IsOneShot /\ obj.pc = "run"
OneShotDone == IsOneShot /\ obj.pc = "done"

(* the levels of a layer's list of (level, measurements) tuples *)
LevelsOf(meas) == [i \in 1..Len(meas) |-> meas[i][1]]

(* C11: after a complete one-shot run (steps_per_measurement *
   len(sparsity_levels) * len(layers) batch-end events, then completed())
   the report holds exactly one entry per prunable layer, in layer order, and
   every entry holds exactly len(sparsity_levels) tuples whose levels are the
   sweep list in the order given. *)
C11_CompleteReport ==
    OneShotDone =>
        /\ obj.steps = max_steps(obj)
        /\ Len(obj.analysis) = Len(obj.prunable_layers)
        /\ \A k \in 1..Len(obj.analysis) :
               /\ obj.analysis[k].name = <<obj.prunable_layers[k], "weight">>
               /\ LevelsOf(obj.analysis[k].meas) = obj.sparsity_levels
        /\ ret.res = Return(obj.analysis)

C11_Witness ==
    /\ OneShotDone
    /\ Len(obj.prunable_layers) = 2
    /\ obj.sparsity_levels = <<Rat(0, 1), Rat(1, 2), Rat(9, 10)>>
    /\ obj.steps_per_measurement = 2
    /\ obj.steps = 12
    /\ Len(obj.analysis) = 2
    /\ LevelsOf(obj.analysis[2].meas) = obj.sparsity_levels

(* the layers that carry an enabled mask *)
EnabledMasks == {k \in DOMAIN obj.masks : obj.masks[k].enabled}

(* C12: during a one-shot run at most one layer carries an enabled mask; when
   the mask of layer k+1 exists, the mask of layer k is disabled and reset:
   layer k holds the values captured when its mask was created, and keeps
   them from then on. *)
C12_OneMaskAtATime ==
    IsOneShot =>
        /\ Cardinality(EnabledMasks) <= 1
        /\ \A k \in DOMAIN obj.masks :
               (k + 1 \in DOMAIN obj.masks /\ obj.masks[k + 1].exists) =>
                   /\ obj.masks[k].exists
                   /\ ~obj.masks[k].enabled
                   /\ obj.param[k] = obj.masks[k].init

C12_Witness ==
    /\ OneShotRunning
    /\ Len(obj.masks) = 2
    /\ obj.masks[2].exists /\ obj.masks[2].enabled
    /\ obj.param[2] # obj.masks[2].init
    /\ FALSE \in {obj.masks[1].mask[i] : i \in DOMAIN obj.masks[1].mask}
    /\ ~obj.masks[1].enabled
    /\ obj.param[1] = obj.masks[1].init

(* the layer and the level being measured *)
Measuring ==
    /\ OneShotRunning
    /\ 0 <= obj.layer_index /\ obj.layer_index < Len(obj.prunable_layers)

CurrentLevel == PyIndex(obj.sparsity_levels, obj.sparsity_index)

FalseCount(mask) == Cardinality({i \in DOMAIN mask : ~mask[i]})

(* C13: for every prunable layer and every level of the sweep, while the
   level is measured the layer's enabled mask is the one made from that
   level's sparsity: it was set before the first measurement step of the
   level and every measurement step taken so far saw this same mask. *)
C13_MaskSetBeforeMeasuring ==
    Measuring =>
        LET k == obj.layer_index + 1
            m == obj.masks[k]
        IN  /\ obj.current_mask = k
            /\ m.exists /\ m.enabled
            /\ m.mask = create_sparsity_mask(obj.param[k], CurrentLevel)
            /\ FalseCount(m.mask) =
                   IF RLe(CurrentLevel, Zero) THEN 0
                   ELSE SparsityRank(CurrentLevel, Len(m.mask))
            /\ obj.param[k] = ModuleParamKSMask_apply(m, obj.param[k])
            /\ \A j \in DOMAIN obj.sparsity_results :
                   /\ obj.sparsity_results[j].layer = obj.layer_index
                   /\ obj.sparsity_results[j].mask = m.mask

C13_Witness ==
    /\ Measuring
    /\ obj.layer_index = 1 /\ obj.sparsity_index = 0
    /\ CurrentLevel = Rat(1, 2)
    /\ obj.steps_per_measurement = 2
    /\ Len(obj.sparsity_results) = 1
    /\ obj.masks[2].mask = <<FALSE, TRUE, FALSE, TRUE>>
    /\ obj.param[2] = <<0, 2, 0, 1>>

(* every (level, measurements) tuple recorded so far, with its layer index
   and its position in the layer's list *)
RecordedTuples ==
    UNION {{[layer |-> obj.analysis[k].name[1] - 1, at |-> i,
             t |-> obj.analysis[k].meas[i]] :
                i \in 1..Len(obj.analysis[k].meas)} :
           k \in 1..Len(obj.analysis)}
    \cup {[layer |-> obj.layer_index, at |-> i, t |-> obj.current_meas[i]] :
             i \in 1..Len(obj.current_meas)}

StepsOf(losses) == {losses[j].step : j \in DOMAIN losses}

(* C14: with steps_per_measurement >= 1 every recorded (level, measurements)
   tuple holds the losses of exactly steps_per_measurement consecutive
   batch-end events, all taken while that layer's mask was at that level; no
   loss is counted in two tuples and none is dropped. *)
C14_ExactMeasurements ==
    IsOneShot =>
        /\ \A r \in RecordedTuples :
               LET level == r.t[1]
                   losses == r.t[2]
               IN  /\ Len(losses) = obj.steps_per_measurement
                   /\ \A j \in DOMAIN losses :
                          /\ losses[j].step = losses[1].step + j - 1
                          /\ losses[j].layer = r.layer
                          /\ losses[j].mask = create_sparsity_mask(
                                 losses[j].param[r.layer + 1], level)
        /\ \A r, s \in RecordedTuples :
               r # s => StepsOf(r.t[2]) \cap StepsOf(s.t[2]) = {}
        /\ UNION {StepsOf(r.t[2]) : r \in RecordedTuples}
               \cup StepsOf(obj.sparsity_results) = 1..obj.steps
        /\ OneShotDone => obj.sparsity_results = <<>>

C14_Witness ==
    /\ OneShotDone
    /\ obj.steps_per_measurement = 2
    /\ Len(obj.prunable_layers) = 2
    /\ obj.sparsity_levels = <<Rat(1, 2), Rat(1, 1)>>
    /\ StepsOf(obj.analysis[2].meas[2][2]) = {7, 8}
    /\ FalseCount(obj.analysis[2].meas[2][2][1].mask) >= 1

(* C15: the feed is cached and replayed in passes of steps_per_measurement
   batches, and measurements start where passes start: the j-th measurement
   step of every (layer, level) pair consumes the cached batch j. *)
C15_SameBatchesEveryLevel ==
    IsOneShot =>
        /\ \A r \in RecordedTuples :
               \A j \in DOMAIN r.t[2] : r.t[2][j].batch = j
        /\ \A j \in DOMAIN obj.sparsity_results :
               obj.sparsity_results[j].batch = j
        /\ obj.loader.cached =
               [j \in 1..(IF obj.steps < obj.steps_per_measurement
                          THEN obj.steps
                          ELSE obj.steps_per_measurement) |-> j]

C15_Witness ==
    /\ OneShotDone
    /\ obj.steps_per_measurement = 2
    /\ Len(obj.analysis) = 2
    /\ Len(obj.sparsity_levels) = 3
    /\ obj.loader.cached = <<1, 2>>
    /\ obj.analysis[2].meas[3][2][2].batch = 2
    /\ obj.analysis[2].meas[3][2][2].step = 12

---------------------------------------------------------------------------
(* approx_ks_loss_sensitivity (sensitivity_ks.py, lines 32-71) *)

MaxLevels == 3

(* the sparsity levels tried, and the sweeps made of them *)
ApproxLevels == {Rat(0, 1), Rat(1, 4), Rat(1, 2), Rat(3, 4), Rat(1, 1)}
ApproxSweeps == SeqsUpTo(ApproxLevels, MaxLevels)

(* the mean of an empty tensor *)
NaN == <<0, 0>>

(* line 51: weight.view(-1).abs().sort() *)
SortedAbs(t) ==
    [r \in 1..Len(t) |->
        Abs(t[CHOOSE i \in DOMAIN t : SortedRank(t, i) = r - 1])]

(* a bound of a Python slice of a sequence of length n *)
PySliceBound(i, n) ==
    IF i < 0 THEN (IF i + n < 0 THEN 0 ELSE i + n)
    ELSE IF i > n THEN n ELSE i

(* values[lo:hi]; lo is <<>> for None, <<k>> for the integer k *)
PySlice(values, lo, hi) ==
    LET a == IF lo = <<>> THEN 0 ELSE PySliceBound(lo[1], Len(values))
        b == PySliceBound(hi, Len(values))
    IN  IF a >= b THEN <<>> ELSE SubSeq(values, a + 1, b)

RECURSIVE SeqSum(_)
SeqSum(s) == IF s = <<>> THEN 0 ELSE Head(s) + SeqSum(Tail(s))

(* tensor.mean().item() *)
Mean(s) == IF s = <<>> THEN NaN ELSE Rat(SeqSum(s), Len(s))

(* lines 56-59: the rank of a level, clamped to the last index *)
approx_val_index(sparsity, n) ==
    LET val_index == round(RMul(sparsity, Rat(n, 1)))
    IN  IF val_index >= n THEN n - 1 ELSE val_index

(* variant: a level of exactly 0.0 is averaged like any other *)
approx_measurement_strict_zero(values, sparsity, prev_index) ==
    IF ~RLe(Zero, sparsity)
    THEN <<sparsity, <<Zero>>>>
    ELSE <<sparsity,
           <<Mean(PySlice(values, prev_index,
                          approx_val_index(sparsity, Len(values))))>>>>

(* lines 61-65: the entry of one level *)
approx_measurement(values, sparsity, prev_index) ==
    IF RLe(sparsity, Zero)
    THEN <<sparsity, <<Zero>>>>
    ELSE <<sparsity,
           <<Mean(PySlice(values, prev_index,
                          approx_val_index(sparsity, Len(values))))>>>>

(* lines 52-67: the loop over the levels, from level number i on *)
RECURSIVE approx_sparse_measurements(_, _, _, _)
approx_sparse_measurements(values, sparsity_levels, i, prev_index) ==
    IF i > Len(sparsity_levels) THEN <<>>
    ELSE <<approx_measurement(values, sparsity_levels[i], prev_index)>>
         \o approx_sparse_measurements(values, sparsity_levels, i + 1,
                <<approx_val_index(sparsity_levels[i], Len(values)) + 1>>)

(* lines 46-71: one result per prunable layer *)
approx_analysis(weights, sparsity_levels) ==
    [k \in 1..Len(weights) |->
        [name |-> <<k, "weight">>,
         index |-> k - 1,
         meas |-> approx_sparse_measurements(
                      SortedAbs(weights[k]), sparsity_levels, 1, <<>>)]]

IsApprox == obj.cls = "approx_ks_loss_sensitivity"

approx_ks_loss_sensitivity(weights, sparsity_levels) ==
    /\ obj' = [cls |-> "approx_ks_loss_sensitivity",
               param |-> weights,
               sparsity_levels |-> sparsity_levels,
               analysis |-> approx_analysis(weights, sparsity_levels)]
    /\ ret' = [op |-> "approx_ks_loss_sensitivity",
               args |-> <<weights, sparsity_levels>>,
               res |-> Return(approx_analysis(weights, sparsity_levels))]

InitApprox == Init

NextApprox ==
    Fresh /\ \E weights \in SeqsUpTo(LayerWeights, MaxLayers),
                sparsity_levels \in ApproxSweeps :
        approx_ks_loss_sensitivity(weights, sparsity_levels)

SpecApprox == InitApprox /\ [][NextApprox]_vars

(* C16: approx_ks_loss_sensitivity produces exactly one result per prunable
   layer, in layer order, each holding exactly one (level, [value]) entry per
   configured sparsity level in the order given; every level <= 0.0 yields
   the value 0.0. *)
C16_ApproxReportShape ==
    IsApprox =>
        /\ ret.res = Return(obj.analysis)
        /\ Len(obj.analysis) = Len(obj.param)
        /\ \A k \in 1..Len(obj.analysis) :
               LET meas == obj.analysis[k].meas
               IN  /\ obj.analysis[k].name = <<k, "weight">>
                   /\ obj.analysis[k].index = k - 1
                   /\ LevelsOf(meas) = obj.sparsity_levels
                   /\ \A i \in 1..Len(meas) :
                          /\ Len(meas[i][2]) = 1
                          /\ RLe(meas[i][1], Zero) => meas[i][2] = <<Zero>>

C16_Witness ==
    /\ IsApprox
    /\ obj.param = <<(<<3, 0 - 1, 2>>), (<<0, 2, 0 - 1, 1>>)>>
    /\ obj.sparsity_levels = <<Rat(0, 1), Rat(1, 2), Rat(1, 1)>>
    /\ obj.analysis[2].meas[1] = <<Rat(0, 1), <<Zero>>>>
    /\ Len(obj.analysis[2].meas) = 3

(* a sweep whose levels strictly ascend *)
Ascending(levels) ==
    \A i \in 1..Len(levels) - 1 :
        RLe(levels[i], levels[i + 1]) /\ levels[i] # levels[i + 1]

(* the rank of level i of the sweep in a tensor of n elements; 0 before the
   first level *)
RankOfLevel(levels, i, n) ==
    IF i = 0 THEN 0 ELSE approx_val_index(levels[i], n)

(* C17: for ascending sparsity levels the value reported for a level > 0 is
   the mean of the ascending-sorted absolute weights whose ranks lie between
   the previous level's rank and the current level's rank round(level * n)
   (clamped to n - 1); the windows of consecutive levels are non-empty,
   pairwise disjoint and contiguous, so that every sorted rank below the last
   level's rank is averaged into exactly one level. *)
C17_ContiguousWindows ==
    (IsApprox /\ Ascending(obj.sparsity_levels)) =>
        \A k \in 1..Len(obj.analysis) :
            LET values == SortedAbs(obj.param[k])
                n == Len(values)
                levels == obj.sparsity_levels
            IN  \A i \in 1..Len(levels) :
                    ~RLe(levels[i], Zero) =>
                        LET lo == RankOfLevel(levels, i - 1, n)
                            hi == RankOfLevel(levels, i, n)
                        IN  /\ lo < hi
                            /\ obj.analysis[k].meas[i][2] =
                                   <<Mean(SubSeq(values, lo + 1, hi))>>

(* what the code averages: the first window starts at rank 0, every later
   one starts one rank after the previous level's rank, so that rank is in no
   window, and a window with no rank in it gives NaN *)
C17_WindowsSkipTheRank ==
    IsApprox =>
        \A k \in 1..Len(obj.analysis) :
            LET values == SortedAbs(obj.param[k])
                n == Len(values)
                levels == obj.sparsity_levels
            IN  \A i \in 1..Len(levels) :
                    ~RLe(levels[i], Zero) =>
                        LET lo == IF i = 1 THEN 0
                                  ELSE RankOfLevel(levels, i - 1, n) + 1
                            hi == RankOfLevel(levels, i, n)
                        IN  obj.analysis[k].meas[i][2] =
                                <<IF lo < hi
                                  THEN Mean(SubSeq(values, lo + 1, hi))
                                  ELSE NaN>>

---------------------------------------------------------------------------
(* A ModuleParamKSMask on its own: one parameter tensor and the mask object
   attached to it, driven by its public operations in any order.
   obj.constructed remembers the values the parameter held when the mask was
   constructed; no operation reads it. *)

(* the values a parameter may hold or be given *)
ParamTensors == LayerWeights \cup {<<0 - 2, 2, 1>>}

(* the sparsities passed to the creators *)
MaskSparsities == ApproxLevels \cup {Rat(9, 10)}

(* the sparsities a mask object is asked for *)
MaskLevels == {Rat(0, 1), Rat(1, 2), Rat(9, 10), Rat(1, 1)}

(* the thresholds passed to set_param_mask_from_abs_threshold *)
MaskThresholds == {Rat(1, 2), Rat(2, 1)}

MasksOfLen(n) == [1..n -> BOOLEAN]

(* the creators a parameter can be given: its length is a whole number of
   groups *)
CreatorsFor(param) == {c \in MaskCreators : Len(param) % c.k = 0}

IsMask == obj.cls = "ModuleParamKSMask"

MaskCall(op, args, r) ==
    /\ obj' = [obj EXCEPT !.m = r.m, !.param = r.param]
    /\ ret' = [op |-> op, args |-> args, res |-> r.res]

(* mask = ModuleParamKSMask(layer, param_name, store_init=...,
   mask_creator=...) *)
ModuleParamKSMask_init(param, store_init, mask_creator) ==
    /\ obj' = [cls |-> "ModuleParamKSMask", param |-> param,
               m |-> ModuleParamKSMask(param, store_init, mask_creator),
               constructed |-> param]
    /\ ret' = [op |-> "ModuleParamKSMask",
               args |-> <<param, store_init, mask_creator>>,
               res |-> Return(PyNone)]

(* mask.enabled = value *)
Call_set_enabled(value) ==
    MaskCall("ModuleParamKSMask.enabled", <<value>>,
        [m |-> ModuleParamKSMask_set_enabled(obj.m, value),
         param |-> obj.param, res |-> Return(PyNone)])

(* set_param_data(value): the live values are replaced, an enabled mask is
   applied to them *)
ModuleParamKSMask_set_param_data(m, param, value) ==
    [m |-> m, param |-> ModuleParamKSMask_apply(m, value),
     res |-> Return(PyNone)]

Call_set_param_data(value) ==
    /\ Len(value) = Len(obj.param)
    /\ MaskCall("ModuleParamKSMask.set_param_data", <<value>>,
           ModuleParamKSMask_set_param_data(obj.m, obj.param, value))

Call_set_param_mask(value) ==
    MaskCall("ModuleParamKSMask.set_param_mask", <<value>>,
        ModuleParamKSMask_set_param_mask(obj.m, obj.param, value))

Call_set_param_mask_from_sparsity(sparsity) ==
    MaskCall("ModuleParamKSMask.set_param_mask_from_sparsity", <<sparsity>>,
        ModuleParamKSMask_set_param_mask_from_sparsity(
            obj.m, obj.param, sparsity))

Call_set_param_mask_from_abs_threshold(threshold) ==
    MaskCall("ModuleParamKSMask.set_param_mask_from_abs_threshold",
        <<threshold>>,
        ModuleParamKSMask_set_param_mask_from_abs_threshold(
            obj.m, obj.param, threshold))

Call_apply ==
    MaskCall("ModuleParamKSMask.apply", <<>>,
        [m |-> obj.m, param |-> ModuleParamKSMask_apply(obj.m, obj.param),
         res |-> Return(PyNone)])

Call_reset ==
    MaskCall("ModuleParamKSMask.reset", <<>>,
        ModuleParamKSMask_reset(obj.m, obj.param))

InitMask == Init

NextMask ==
    \/ Fresh /\ \E param \in ParamTensors, store_init \in BOOLEAN :
                    \E mask_creator \in CreatorsFor(param) :
                        ModuleParamKSMask_init(param, store_init, mask_creator)
    \/ IsMask /\ \E value \in BOOLEAN : Call_set_enabled(value)
    \/ IsMask /\ \E value \in ParamTensors : Call_set_param_data(value)
    \/ IsMask /\ \E value \in MasksOfLen(Len(obj.param)) :
                     Call_set_param_mask(value)
    \/ IsMask /\ \E sparsity \in MaskLevels :
                     Call_set_param_mask_from_sparsity(sparsity)
    \/ IsMask /\ \E threshold \in MaskThresholds :
                     Call_set_param_mask_from_abs_threshold(threshold)
    \/ IsMask /\ Call_apply
    \/ IsMask /\ Call_reset

SpecMask == InitMask /\ [][NextMask]_vars

(* C18: set_param_mask(candidate) installs the candidate as the mask and
   returns a per-element diff that is +1 exactly where the old mask was False
   and the new one is True, -1 exactly where the old mask was True and the
   new one is False, and 0 elsewhere; on a fresh (all kept) mask the diff is
   -1 exactly at the candidate's zero entries, 0 at its one entries and
   never +1. *)
C18_SetParamMaskDiff ==
    [][(IsMask /\ ret'.op = "ModuleParamKSMask.set_param_mask") =>
          LET old == obj.m.mask
              new == obj'.m.mask
              diff == ret'.res.val
          IN  /\ new = ret'.args[1]
              /\ ret'.res.exc = "None"
              /\ DOMAIN diff = DOMAIN new
              /\ \A i \in DOMAIN new :
                     /\ diff[i] = 1 <=> (~old[i] /\ new[i])
                     /\ diff[i] = 0 - 1 <=> (old[i] /\ ~new[i])
                     /\ diff[i] = 0 <=> (old[i] = new[i])
              /\ old = AllTrue(Len(old)) =>
                     \A i \in DOMAIN new :
                         /\ diff[i] = 0 - 1 <=> ~new[i]
                         /\ diff[i] = 0 <=> new[i]
                         /\ diff[i] # 1]_vars

C18_Witness ==
    /\ IsMask /\ ret.op = "ModuleParamKSMask.set_param_mask"
    /\ ret.args[1] = <<TRUE, FALSE, TRUE>>
    /\ ret.res.val = <<1, 0 - 1, 0>>
    /\ obj.m.mask = <<TRUE, FALSE, TRUE>>

(* C19: apply() with the mask enabled leaves every element whose mask entry
   is False at exactly 0 and every element whose mask entry is True
   unchanged; with the mask disabled it changes no element; applying again
   without changing the mask gives the same tensor. *)
C19_ApplyFrame ==
    [][(IsMask /\ ret'.op = "ModuleParamKSMask.apply") =>
          /\ obj'.m = obj.m
          /\ obj.m.enabled =>
                 \A i \in DOMAIN obj.param :
                     /\ ~obj.m.mask[i] => obj'.param[i] = 0
                     /\ obj.m.mask[i] => obj'.param[i] = obj.param[i]
          /\ ~obj.m.enabled => obj'.param = obj.param
          /\ ModuleParamKSMask_apply(obj'.m, obj'.param) = obj'.param]_vars

C19_Witness ==
    /\ IsMask /\ ret.op = "ModuleParamKSMask.apply"
    /\ obj.m.enabled
    /\ obj.m.mask = <<TRUE, FALSE, FALSE>>
    /\ obj.constructed = <<3, 0 - 1, 2>>
    /\ obj.param = <<3, 0, 0>>

(* C20: for a mask created with store_init=True, after any sequence of
   set_param_mask / set_param_mask_from_sparsity / apply operations (and of
   the other operations of the mask), reset() restores the parameter to
   exactly the values it had when the mask was constructed. *)
C20_ResetRestores ==
    (IsMask /\ ret.op = "ModuleParamKSMask.reset" /\ obj.m.store_init) =>
        /\ ret.res = Return(PyNone)
        /\ obj.param = obj.constructed

C20_Witness ==
    /\ IsMask /\ ret.op = "ModuleParamKSMask.reset"
    /\ obj.m.store_init /\ obj.m.enabled
    /\ obj.m.mask = <<FALSE, TRUE, FALSE, TRUE>>
    /\ obj.constructed = <<0, 2, 0 - 1, 1>>
    /\ obj.param = obj.constructed

---------------------------------------------------------------------------
(* The mask creators called on their own *)

IsCreator == obj.cls = "MaskCreator"

Call_create_sparsity_mask_from_abs_threshold(c, t, threshold) ==
    /\ obj' = [cls |-> "MaskCreator", creator |-> c, tensor |-> t]
    /\ ret' = [op |-> "create_sparsity_mask_from_abs_threshold",
               args |-> <<t, threshold>>,
               res |-> Return(create_sparsity_mask_from_abs_threshold(
                                  c, t, threshold))]

Call_create_sparsity_mask(c, t, sparsity) ==
    /\ obj' = [cls |-> "MaskCreator", creator |-> c, tensor |-> t]
    /\ ret' = [op |-> "create_sparsity_mask", args |-> <<t, sparsity>>,
               res |-> Return(grouped_create_sparsity_mask(c, t, sparsity))]

InitCreator == Init

NextCreator ==
    \/ Fresh /\ \E c \in MaskCreators, t \in CreatorTensors,
                   threshold \in CreatorThresholds :
           Call_create_sparsity_mask_from_abs_threshold(c, t, threshold)
    \/ Fresh /\ \E c \in MaskCreators, t \in CreatorTensors,
                   sparsity \in MaskSparsities :
           Call_create_sparsity_mask(c, t, sparsity)

SpecCreator == InitCreator /\ [][NextCreator]_vars

(* the unstructured creator of this section and the one the masks of the
   analyses use give the same mask *)
UnstructuredAgrees ==
    (IsCreator /\ ret.op = "create_sparsity_mask"
        /\ obj.creator.kind = "unstructured") =>
        ret.res.val = create_sparsity_mask(ret.args[1], ret.args[2])

FromSparsity == IsCreator /\ ret.op = "create_sparsity_mask"

InUnitInterval(f) == RLe(Zero, f) /\ RLe(f, One)

(* |z / n - f| <= 1 / k for integers z, n, k > 0 and a rational f *)
Within(z, n, f, k) ==
    LET diff == RSub(Rat(z, n), f)
    IN  RLe(diff, Rat(1, k)) /\ RLe(Rat(0 - 1, k), diff)

(* C21: for every tensor T with n elements and every fraction f in [0,1],
   the mask produced by mask_from_sparsity(T, f) has a number of False
   entries z with |z/n - f| <= 1/n, and for f = 0 the mask is all True. *)
C21_SparsityWithinOneElement ==
    (FromSparsity /\ InUnitInterval(ret.args[2])) =>
        LET n == Len(ret.args[1])
            f == ret.args[2]
        IN  /\ Within(FalseCount(ret.res.val), n, f, n)
            /\ f = Zero => ret.res.val = AllTrue(n)

(* C21 as the creators have it: the masked fraction is within one group,
   1 / num_groups, of f; for the unstructured creator a group is an element,
   and there the distance is at most 1/n. *)
C21_SparsityWithinOneGroup ==
    (FromSparsity /\ InUnitInterval(ret.args[2])) =>
        LET n == Len(ret.args[1])
            f == ret.args[2]
            num_groups == Cardinality(GroupsOf(obj.creator, n))
        IN  /\ Len(ret.res.val) = n
            /\ Within(FalseCount(ret.res.val), n, f, num_groups)
            /\ obj.creator.kind = "unstructured" =>
                   Within(FalseCount(ret.res.val), n, f, n)
            /\ f = Zero => ret.res.val = AllTrue(n)

C21_Witness ==
    /\ FromSparsity
    /\ obj.creator.kind = "unstructured"
    /\ ret.args = <<(<<1, 1, 0 - 2, 1>>), Rat(3, 4)>>
    /\ ret.res.val = <<FALSE, FALSE, TRUE, FALSE>>

(* C22: every mask produced by a grouped creator (Dimension or Block), from
   a threshold or from a target sparsity, is constant within each group, so
   the per-group mean of the mask is exactly 0 or 1. *)
C22_GroupedMaskConstant ==
    (IsCreator /\ obj.creator.kind # "unstructured") =>
        LET mask == ret.res.val
            ints == [i \in DOMAIN mask |-> BoolToInt(mask[i])]
        IN  /\ \A i, j \in DOMAIN mask :
                   GroupOf(obj.creator, i) = GroupOf(obj.creator, j)
                       => mask[i] = mask[j]
            /\ \A i \in DOMAIN mask :
                   group_tensor(obj.creator, ints)[i] \in {Zero, One}

C22_Witness ==
    /\ IsCreator /\ obj.creator.kind = "block"
    /\ ret.op = "create_sparsity_mask_from_abs_threshold"
    /\ ret.args = <<(<<0, 1, 0 - 2, 1, 0, 0>>), Rat(1, 2)>>
    /\ ret.res.val = <<FALSE, FALSE, TRUE, TRUE, FALSE, FALSE>>

(* the same for the mask a ModuleParamKSMask installs through its creator,
   from a sparsity or from a threshold *)
C22_InstalledMaskGrouped ==
    (IsMask /\ ret.op \in
        {"ModuleParamKSMask.set_param_mask_from_sparsity",
         "ModuleParamKSMask.set_param_mask_from_abs_threshold"}) =>
        /\ \A i, j \in DOMAIN obj.m.mask :
               GroupOf(obj.m.mask_creator, i) = GroupOf(obj.m.mask_creator, j)
                   => obj.m.mask[i] = obj.m.mask[j]
        /\ obj.m.enabled =>
               \A i \in DOMAIN obj.m.mask : ~obj.m.mask[i] => obj.param[i] = 0

---------------------------------------------------------------------------
(* ConstantPruningModifier (modifier_pruning.py, lines 347-512): the
   constructor, the update_ready and sparsity properties, is_pruning_step.
   An instance attribute is a record [set, val]; an attribute that was never
   assigned has set = FALSE and reading it raises AttributeError.
   obj.called and obj.last remember whether is_pruning_step has returned and
   what it returned last; no operation reads them. *)

MaxEpoch == 1
MaxStepsPerEpoch == 2

Epochs == (0 - 1)..MaxEpoch

CPMTensors == {NoTensor, Tensor(<<0, 1, 0>>), Tensor(<<1, 1>>)}

Unset == [set |-> FALSE, val |-> PyNone]
Attr(v) == [set |-> TRUE, val |-> v]

(* self._attr read through a property *)
ReadAttr(a) == IF a.set THEN Return(a.val) ELSE Raise("AttributeError")

(* __init__, lines 370-390: _update_ready and _sparsity are not assigned *)
ConstantPruningModifier(start_epoch, end_epoch) ==
    [cls |-> "ConstantPruningModifier",
     start_epoch |-> start_epoch, end_epoch |-> end_epoch,
     update_ready |-> Unset, sparsity |-> Unset,
     called |-> FALSE, last |-> PyNone]

(* ScheduledModifier.start_end_steps(steps_per_epoch, after_optim=False),
   not part of the tree under src/: the epochs turned into steps *)
start_end_steps(o, steps_per_epoch) ==
    <<o.start_epoch * steps_per_epoch, o.end_epoch * steps_per_epoch>>

(* cast(not_equal(tensor, 0.0)) *)
NonZeroMask(d) == [i \in DOMAIN d |-> IF d[i] # 0 THEN 1 ELSE 0]

(* is_pruning_step, lines 430-448: the object and the outcome *)
ConstantPruningModifier_is_pruning_step(o, step, steps_per_epoch, tensor) ==
    LET se == start_end_steps(o, steps_per_epoch)
        is_start_step == step = se[1]
        is_end_step == step = se[2]
        a == [o EXCEPT !.update_ready = Attr(is_start_step \/ is_end_step)]
        done(sparsity, mask) ==
            LET r == <<a.update_ready.val, sparsity, mask>>
            IN  [o |-> [a EXCEPT !.sparsity = Attr(sparsity),
                                 !.called = TRUE,
                                 !.last = r],
                 res |-> Return(r)]
    IN  IF is_start_step
        THEN IF tensor.is_none
             THEN [o |-> a, res |-> Raise("RuntimeError")]
             ELSE done(Rat(ZeroCount(tensor.data), Len(tensor.data)),
                       NonZeroMask(tensor.data))
        ELSE IF is_end_step
        THEN IF tensor.is_none
             THEN [o |-> a, res |-> Raise("ValueError")]
             ELSE done(Zero, [i \in DOMAIN tensor.data |-> 1])
        ELSE done(PyNone, PyNone)

IsCPM == obj.cls = "ConstantPruningModifier"

ConstantPruningModifier_init(start_epoch, end_epoch) ==
    /\ obj' = ConstantPruningModifier(start_epoch, end_epoch)
    /\ ret' = [op |-> "ConstantPruningModifier.__init__",
               args |-> <<start_epoch, end_epoch>>, res |-> Return(PyNone)]

Call_is_pruning_step(step, steps_per_epoch, tensor) ==
    LET r == ConstantPruningModifier_is_pruning_step(
                 obj, step, steps_per_epoch, tensor)
    IN  /\ obj' = r.o
        /\ ret' = [op |-> "ConstantPruningModifier.is_pruning_step",
                   args |-> <<step, steps_per_epoch, tensor>>,
                   res |-> r.res]

(* the update_ready property, lines 414-420 *)
Get_update_ready ==
    /\ ret' = [op |-> "ConstantPruningModifier.update_ready", args |-> <<>>,
               res |-> ReadAttr(obj.update_ready)]
    /\ UNCHANGED obj

(* the sparsity property, lines 422-428 *)
Get_sparsity ==
    /\ ret' = [op |-> "ConstantPruningModifier.sparsity", args |-> <<>>,
               res |-> ReadAttr(obj.sparsity)]
    /\ UNCHANGED obj

InitConstant == Init

NextConstant ==
    \/ Fresh /\ \E start_epoch \in Epochs, end_epoch \in Epochs :
                    ConstantPruningModifier_init(start_epoch, end_epoch)
    \/ IsCPM /\ \E step \in Steps, steps_per_epoch \in 1..MaxStepsPerEpoch,
                   tensor \in CPMTensors :
                    Call_is_pruning_step(step, steps_per_epoch, tensor)
    \/ IsCPM /\ Get_update_ready
    \/ IsCPM /\ Get_sparsity

SpecConstant == InitConstant /\ [][NextConstant]_vars

(* C23: on a newly constructed ConstantPruningModifier, before any call to
   is_pruning_step, reading update_ready and sparsity each returns None
   without an error; after a call of is_pruning_step they return the
   update-ready flag and the sparsity computed by that call. *)
C23_PropertiesReadable ==
    /\ (IsCPM /\ ret.op = "ConstantPruningModifier.update_ready") =>
           /\ ret.res.exc = "None"
           /\ IF obj.called THEN ret.res.val = obj.last[1]
              ELSE ret.res.val = PyNone
    /\ (IsCPM /\ ret.op = "ConstantPruningModifier.sparsity") =>
           /\ ret.res.exc = "None"
           /\ IF obj.called THEN ret.res.val = obj.last[2]
              ELSE ret.res.val = PyNone

(* what the code does: a property read before the attribute was first
   assigned by is_pruning_step raises AttributeError; once is_pruning_step
   has returned, both properties give what it returned *)
C23_UnsetUntilFirstCall ==
    /\ (IsCPM /\ ret.op = "ConstantPruningModifier.update_ready") =>
           IF obj.update_ready.set
           THEN ret.res = Return(obj.update_ready.val)
           ELSE ret.res = Raise("AttributeError")
    /\ (IsCPM /\ ret.op = "ConstantPruningModifier.sparsity") =>
           IF obj.called
           THEN ret.res = Return(obj.last[2])
           ELSE ret.res = Raise("AttributeError")
    /\ IsCPM => (obj.called => obj.update_ready.set /\ obj.sparsity.set)
    /\ (IsCPM /\ ret.op = "ConstantPruningModifier.is_pruning_step"
           /\ ret.res.exc = "None") =>
           /\ obj.update_ready = Attr(ret.res.val[1])
           /\ obj.sparsity = Attr(ret.res.val[2])
    /\ (IsCPM /\ ret.op = "ConstantPruningModifier.__init__") =>
           ~obj.update_ready.set /\ ~obj.sparsity.set

---------------------------------------------------------------------------
(* ModelInfo (sparsification/model_info.py): construction from a layer-info
   dict, add_analysis_result, to_dict, save, from_dict, load.
   A Python object is a record with its class in pyclass; a dict is a
   sequence of <<key, value>> pairs in insertion order; an Optional[int] is
   <<>> for None and <<k>> for k; a tuple or list value is [seq, items].
   The object under test is an instance of a concrete subclass of the
   abstract ModelInfo, together with the file save() wrote. *)

MaxResults == 2

(* LayerInfo's root validator check_params_if_prunable, lines 87-96: the
   exception it raises for the given values, "None" when it returns *)
check_params_if_prunable(values) ==
    IF values.prunable /\ values.params \in {PyNone, <<0>>}
    THEN "ValidationError" ELSE "None"

(* LayerInfo(name=..., op_type=..., params=..., prunable=...), lines 40-96:
   the fields not given take their defaults; the outcome of the call *)
LayerInfo(name, op_type, params, prunable) ==
    LET self == [pyclass |-> "LayerInfo", name |-> name, op_type |-> op_type,
                 params |-> params, bias_params |-> PyNone,
                 prunable |-> prunable, flops |-> PyNone,
                 execution_order |-> 0 - 1, attributes |-> PyNone]
    IN  IF check_params_if_prunable(self) # "None"
        THEN Raise(check_params_if_prunable(self))
        ELSE Return(self)

(* Result(value=...), lines 178-192 *)
Result(value) ==
    [pyclass |-> "Result", value |-> value, attributes |-> PyNone]

(* ModelResult(analysis_type=..., value=..., layer_results=...),
   lines 195-211 *)
ModelResult(analysis_type, value, layer_results) ==
    [pyclass |-> "ModelResult", analysis_type |-> analysis_type,
     value |-> value, attributes |-> PyNone,
     layer_results |-> layer_results]

(* the layer-info dicts, metadata and results handed to the object *)
LayerInfoDicts ==
    {<<>>,
     <<(<<"conv1", LayerInfo("conv1", "conv", <<4>>, TRUE).val>>)>>,
     <<(<<"conv1", LayerInfo("conv1", "conv", <<4>>, TRUE).val>>),
       (<<"relu1", LayerInfo("relu1", "relu", <<>>, FALSE).val>>)>>}

PyTuple(items) == [seq |-> "tuple", items |-> items]
PyList(items) == [seq |-> "list", items |-> items]

Metadatas ==
    {<<>>, <<(<<"shape", PyList(<<1, 2>>)>>)>>,
     <<(<<"shape", PyTuple(<<1, 2>>)>>)>>}

ModelResults ==
    {ModelResult("sensitivity", v, lr) :
        v \in {<<>>, <<1>>},
        lr \in {<<>>, <<(<<"conv1", Result(<<1>>)>>)>>,
                <<(<<"fc9", Result(<<>>)>>)>>}}

Keys(d) == {d[i][1] : i \in DOMAIN d}

(* dict(model): the fields of a pydantic object as a dict; nested objects
   stay objects *)
PyDict(o) == [o EXCEPT !.pyclass = "dict"]

(* the abstract base class cannot be instantiated *)
IsAbstract(cls) == cls = "ModelInfo"

(* cls(layer_info, metadata=...), lines 222-231, for a layer-info dict *)
ModelInfo_new(cls, layer_info, metadata) ==
    IF IsAbstract(cls) THEN Raise("TypeError")
    ELSE Return([pyclass |-> cls, metadata |-> metadata,
                 layer_info |-> layer_info, analysis_results |-> <<>>])

(* add_analysis_result, lines 294-297 *)
ModelInfo_add_analysis_result(o, result) ==
    IF Keys(result.layer_results) \subseteq Keys(o.layer_info)
    THEN [o |-> [o EXCEPT !.analysis_results = Append(@, result)],
          res |-> Return(PyNone)]
    ELSE [o |-> o, res |-> Raise("AssertionError")]

(* to_dict, lines 311-321 *)
ModelInfo_to_dict(o) ==
    [metadata |-> o.metadata,
     layer_info |-> [i \in DOMAIN o.layer_info |->
                        <<o.layer_info[i][1], PyDict(o.layer_info[i][2])>>],
     analysis_results |-> [i \in DOMAIN o.analysis_results |->
                              PyDict(o.analysis_results[i])]]

(* what json.dump writes for a value of a metadata dict: a tuple is written
   as a list *)
JsonValue(v) == [v EXCEPT !.seq = "list"]

(* json.dump of the dict of to_dict, lines 330-331: a Result object inside a
   layer_results dict cannot be written *)
json_dump(d) ==
    IF \E i \in DOMAIN d.analysis_results :
           d.analysis_results[i].layer_results # <<>>
    THEN Raise("TypeError")
    ELSE Return([d EXCEPT !.metadata =
                     [i \in DOMAIN d.metadata |->
                         <<d.metadata[i][1], JsonValue(d.metadata[i][2])>>]])

(* the file: absent, cut short by a failed dump, or holding the JSON text *)
NoFile == [state |-> "absent", json |-> PyNone]
PartialFile == [state |-> "partial", json |-> PyNone]
JsonFile(text) == [state |-> "written", json |-> text]

(* save, lines 323-331: the file after the call and the outcome *)
ModelInfo_save(o) ==
    LET w == json_dump(ModelInfo_to_dict(o))
    IN  IF w.exc = "None"
        THEN [file |-> JsonFile(w.val), res |-> Return(PyNone)]
        ELSE [file |-> PartialFile, res |-> w]

(* LayerInfo.parse_obj / ModelResult.parse_obj / Result.parse_obj of a dict
   or of an object: the fields are validated and converted, so the values of
   layer_results become Result objects; the outcome of the call *)
parse_obj(cls, d) ==
    IF cls = "LayerInfo"
    THEN IF check_params_if_prunable(d) # "None"
         THEN Raise(check_params_if_prunable(d))
         ELSE Return([d EXCEPT !.pyclass = cls])
    ELSE IF cls = "ModelResult"
    THEN Return([d EXCEPT
             !.pyclass = cls,
             !.layer_results =
                 [i \in DOMAIN d.layer_results |->
                     <<d.layer_results[i][1],
                       [d.layer_results[i][2] EXCEPT !.pyclass = "Result"]>>]])
    ELSE Return([d EXCEPT !.pyclass = cls])

(* dictionary.get(key, default) *)
DictGet(dictionary, key, default) ==
    IF key \in DOMAIN dictionary THEN dictionary[key] ELSE default

(* lines 252-254: every result is parsed and added in turn; the first
   failing add_analysis_result ends the call *)
RECURSIVE from_dict_results(_, _, _)
from_dict_results(model_info, results, i) ==
    IF i > Len(results) THEN Return(model_info)
    ELSE LET model_result == parse_obj("ModelResult", results[i])
             added == ModelInfo_add_analysis_result(model_info,
                                                    model_result.val)
         IN  IF added.res.exc # "None" THEN added.res
             ELSE from_dict_results(added.o, results, i + 1)

(* from_dict, lines 233-256 *)
ModelInfo_from_dict(cls, dictionary) ==
    IF "layer_info" \notin DOMAIN dictionary THEN Raise("ValueError")
    ELSE LET given == dictionary.layer_info
             parsed == [i \in DOMAIN given |->
                           parse_obj("LayerInfo", given[i][2])]
             layer_info == [i \in DOMAIN given |->
                               <<given[i][1], parsed[i].val>>]
             model_info ==
                 ModelInfo_new(cls, layer_info,
                               DictGet(dictionary, "metadata", <<>>))
         IN  IF \E i \in DOMAIN given : parsed[i].exc # "None"
             THEN Raise("ValidationError")
             ELSE IF model_info.exc # "None" THEN model_info
             ELSE from_dict_results(model_info.val,
                      DictGet(dictionary, "analysis_results", <<>>), 1)

(* load, lines 258-267: always through the class ModelInfo itself *)
ModelInfo_load(file) ==
    IF file.state = "absent" THEN Raise("FileNotFoundError")
    ELSE IF file.state = "partial" THEN Raise("JSONDecodeError")
    ELSE ModelInfo_from_dict("ModelInfo", file.json)

IsModelInfo == obj.cls = "ModelInfo"

(* the ModelInfo object held in obj *)
Self ==
    [pyclass |-> obj.pyclass, metadata |-> obj.metadata,
     layer_info |-> obj.layer_info,
     analysis_results |-> obj.analysis_results]

(* info = SubModelInfo(layer_info, metadata) *)
ModelInfo_init(layer_info, metadata) ==
    /\ obj' = [cls |-> "ModelInfo", pyclass |-> "SubModelInfo",
               metadata |-> metadata, layer_info |-> layer_info,
               analysis_results |-> <<>>, file |-> NoFile]
    /\ ret' = [op |-> "ModelInfo.__init__", args |-> <<layer_info, metadata>>,
               res |-> Return(PyNone)]

Call_add_analysis_result(result) ==
    /\ Len(obj.analysis_results) < MaxResults
    /\ LET r == ModelInfo_add_analysis_result(Self, result)
       IN  /\ obj' = [obj EXCEPT !.analysis_results = r.o.analysis_results]
           /\ ret' = [op |-> "ModelInfo.add_analysis_result",
                      args |-> <<result>>, res |-> r.res]

Call_save ==
    /\ obj' = [obj EXCEPT !.file = ModelInfo_save(Self).file]
    /\ ret' = [op |-> "ModelInfo.save", args |-> <<>>,
               res |-> ModelInfo_save(Self).res]

Call_load ==
    /\ ret' = [op |-> "ModelInfo.load", args |-> <<>>,
               res |-> ModelInfo_load(obj.file)]
    /\ UNCHANGED obj

(* the dictionaries handed to from_dict: to_dict() of the object; the same
   without its "layer_info" key; with the "layer_info" key only; with a
   further result that names a layer the object does not have; with a
   prunable layer that has no params *)
FromDictInputs ==
    LET d == ModelInfo_to_dict(Self)
    IN  {d,
         [metadata |-> d.metadata, analysis_results |-> d.analysis_results],
         [layer_info |-> d.layer_info],
         [d EXCEPT !.analysis_results =
             Append(@, PyDict(ModelResult("sensitivity", <<>>,
                        <<(<<"fc9", PyDict(Result(<<1>>))>>)>>)))],
         [d EXCEPT !.layer_info =
             Append(@, <<"fc1", [PyDict(LayerInfo("fc1", "linear", <<>>,
                                                  FALSE).val)
                                    EXCEPT !.prunable = TRUE]>>)]}

(* SubModelInfo.from_dict(dictionary) *)
Call_from_dict(dictionary) ==
    /\ ret' = [op |-> "ModelInfo.from_dict", args |-> <<dictionary>>,
               res |-> ModelInfo_from_dict(obj.pyclass, dictionary)]
    /\ UNCHANGED obj

InitModelInfo == Init

NextModelInfo ==
    \/ Fresh /\ \E layer_info \in LayerInfoDicts, metadata \in Metadatas :
                    ModelInfo_init(layer_info, metadata)
    \/ IsModelInfo /\ \E result \in ModelResults :
                          Call_add_analysis_result(result)
    \/ IsModelInfo /\ Call_save
    \/ IsModelInfo /\ Call_load
    \/ IsModelInfo /\ \E dictionary \in FromDictInputs :
                          Call_from_dict(dictionary)

SpecModelInfo == InitModelInfo /\ [][NextModelInfo]_vars

(* the file holds what save() writes for the object as it is now *)
SavedNow == obj.file = ModelInfo_save(Self).file /\ obj.file.state = "written"

(* C24: ModelInfo.save(path) followed by ModelInfo.load(path) returns a
   ModelInfo object whose metadata, layer_info (same layer names and field
   values) and analysis_results (same results in the same order) equal
   those of the saved object. *)
C24_SaveLoadRoundTrip ==
    (IsModelInfo /\ ret.op = "ModelInfo.load" /\ SavedNow) =>
        /\ ret.res.exc = "None"
        /\ ret.res.val.metadata = obj.metadata
        /\ ret.res.val.layer_info = obj.layer_info
        /\ ret.res.val.analysis_results = obj.analysis_results

(* what the code does: load() goes through ModelInfo.from_dict, which
   instantiates the abstract class, so a written file never loads; save()
   itself fails once a result carries layer results; from_dict on the
   concrete class gives back an equal object *)
C24_LoadNeverReturns ==
    /\ (IsModelInfo /\ ret.op = "ModelInfo.load") =>
           ret.res = Raise(IF obj.file.state = "absent"
                           THEN "FileNotFoundError"
                           ELSE IF obj.file.state = "partial"
                           THEN "JSONDecodeError" ELSE "TypeError")
    /\ (IsModelInfo /\ ret.op = "ModelInfo.save") =>
           (ret.res.exc = "None" <=>
               \A i \in DOMAIN obj.analysis_results :
                   obj.analysis_results[i].layer_results = <<>>)
    /\ (IsModelInfo /\ ret.op = "ModelInfo.from_dict") =>
           LET dictionary == ret.args[1]
           IN  IF "layer_info" \notin DOMAIN dictionary
               THEN ret.res = Raise("ValueError")
               ELSE IF Len(dictionary.layer_info) > Len(obj.layer_info)
               THEN ret.res = Raise("ValidationError")
               ELSE IF "metadata" \notin DOMAIN dictionary
               THEN ret.res = Return([Self EXCEPT !.metadata = <<>>,
                                                  !.analysis_results = <<>>])
               ELSE IF Len(dictionary.analysis_results)
                           > Len(obj.analysis_results)
               THEN ret.res = Raise("AssertionError")
               ELSE ret.res = Return(Self)

---------------------------------------------------------------------------
(* Further properties of the keras schedulers and of GMPruningModifier *)

(* C25: for every FunctionalScheduler with start_step <= end_step, the case
   start_step = end_step included, target_sparsity(step) returns a sparsity
   without raising for every integer step, and returns init_sparsity at
   step = start_step. *)
C25_TargetSparsityTotal ==
    (FSCall("FunctionalScheduler.target_sparsity")
        /\ obj.inter_func \in RecognisedInterFuncs
        /\ obj.start_step <= obj.end_step) =>
        /\ ret.res.exc = "None"
        /\ ret.args[1] = obj.start_step
               => ret.res = Return(FromRat(obj.init_sparsity))

(* what the code does: with a recognised inter_func the call raises exactly
   when start_step = end_step, whatever the step, because the quotient by
   end_step - start_step is computed first *)
C25_RaisesWhenStartIsEnd ==
    (FSCall("FunctionalScheduler.target_sparsity")
        /\ obj.inter_func \in RecognisedInterFuncs
        /\ obj.start_step <= obj.end_step) =>
        /\ ret.res.exc # "None" <=> obj.start_step = obj.end_step
        /\ obj.start_step = obj.end_step
               => ret.res = Raise("ZeroDivisionError")
        /\ (ret.res.exc = "None" /\ ret.args[1] = obj.start_step)
               => ret.res = Return(FromRat(obj.init_sparsity))

(* C26: a GMPruningModifier setter call that raises leaves the stored
   configuration unchanged, so after any sequence of setter calls on
   init_sparsity, final_sparsity and inter_func, successful or failed, the
   stored init_sparsity and final_sparsity are floats in [0, 1] and the stored
   inter_func is one of linear, cubic, inverse_cubic. *)
C26_StoredConfigStaysValid ==
    IsGM =>
        /\ obj.init_sparsity.ty = "float" /\ InUnit(obj.init_sparsity.v)
        /\ obj.final_sparsity.ty = "float" /\ InUnit(obj.final_sparsity.v)
        /\ obj.inter_func \in RecognisedInterFuncs

(* what the code does: the value given to a setter is the value stored,
   whether or not the call raises *)
C26_SetterAlwaysStores ==
    IsGM =>
        /\ ret.op = "GMPruningModifier.init_sparsity.setter"
               => obj.init_sparsity = ret.args[1]
        /\ ret.op = "GMPruningModifier.final_sparsity.setter"
               => obj.final_sparsity = ret.args[1]
        /\ ret.op = "GMPruningModifier.inter_func.setter"
               => obj.inter_func = ret.args[1]

---------------------------------------------------------------------------
(* The callbacks of _sensitivity_callback used directly: batch_end any number
   of times, completed() at any point (sensitivity_ks.py lines 74-170) *)

MaxOverrun == 1

(* the callbacks stay callable after the last layer and after completed();
   the calls followed here end once the layer index has passed the last
   layer by MaxOverrun *)
CallbacksHeld ==
    /\ IsOneShot
    /\ obj.layer_index < Len(obj.prunable_layers) + MaxOverrun

(* batch_end(epoch, step, batch_size, data, pred, losses) called by the
   holder of the callbacks; returns None *)
Callback_batch_end ==
    /\ CallbacksHeld
    /\ LET nx == infinite_data_loader_next(obj.loader,
                     obj.steps_per_measurement)
           losses == Loss(obj, nx.batch)
       IN  /\ obj' = [batch_end(obj, losses)
                         EXCEPT !.loader = nx.ld, !.steps = @ + 1]
           /\ ret' = [op |-> "batch_end", args |-> <<losses>>,
                      res |-> Return(PyNone)]

(* completed() called by the holder of the callbacks, whatever the number of
   batch_end calls so far; line 168: it returns the pair of callbacks *)
Callback_completed ==
    /\ CallbacksHeld
    /\ obj' = completed(obj)
    /\ ret' = [op |-> "completed", args |-> <<obj.steps>>,
               res |-> Return(<<"batch_end", "completed">>)]

InitCallback == Init

NextCallback ==
    \/ Fresh /\ \E weights \in SeqsUpTo(LayerWeights, MaxLayers),
                   sparsity_levels \in SweepLists,
                   steps_per_measurement \in 1..MaxStepsPerMeasurement :
           one_shot_ks_loss_sensitivity(weights, sparsity_levels,
               steps_per_measurement)
    \/ Callback_batch_end
    \/ Callback_completed

SpecCallback == InitCallback /\ [][NextCallback]_vars

(* a layer whose mask exists holds the values captured at mask construction;
   a layer without a mask has never been written *)
WeightsRestored ==
    \A k \in DOMAIN obj.masks :
        obj.masks[k].exists => obj.param[k] = obj.masks[k].init

(* C27: whenever completed() is invoked after any number of batch_end calls,
   in the middle of a layer's sweep included, on return no layer is left with
   an enabled mask and every layer's weights are back at their original
   values. *)
C27_CompletedCleansUp ==
    (IsOneShot /\ ret.op = "completed") =>
        EnabledMasks = {} /\ WeightsRestored

(* what the code does: completed() leaves nothing masked exactly when it
   moved past the last layer, that is when it was called at the last level of
   the last layer or after; called earlier it leaves a mask enabled (the
   current one at its next level, or a new one on the next layer) *)
C27_CleanOnlyPastLastLayer ==
    (IsOneShot /\ ret.op = "completed") =>
        /\ EnabledMasks = {} <=> obj.layer_index >= Len(obj.prunable_layers)
        /\ EnabledMasks = {} => WeightsRestored

(* C28: both sensitivity algorithms tag a layer's result with the same key:
   the index passed to add_result with "<name>.weight" for the k-th prunable
   layer (0-based discovery order) is k, in one_shot_ks_loss_sensitivity as in
   approx_ks_loss_sensitivity. *)
C28_ResultIndexIsLayerIndex ==
    (IsOneShot \/ IsApprox) =>
        \A k \in 1..Len(obj.analysis) : obj.analysis[k].index = k - 1

(* what the one-shot code does: the index of every result is the number of
   sparsity levels, the value sparsity_index has when a sweep is over *)
C28_OneShotIndexIsLevelCount ==
    IsOneShot =>
        \A k \in 1..Len(obj.analysis) :
            obj.analysis[k].index = Len(obj.sparsity_levels)

---------------------------------------------------------------------------
(* ModuleASAnalyzer (recal/activation/analyzer.py) and the module it hooks.
   The module's registered hooks are sets of handle ids; a RemovableHandle is
   its id, and remove() takes the id out of the module's set. A tensor
   handed to a hook is described by the value tensor_sparsity returns for
   it; a sample of it, which tensor_sample returns, by the tensor and the
   size asked for. *)

MaxForward == 2

ActivationSparsities == {Rat(0, 1), Rat(1, 2)}

ASResultType ==
    {"inputs_sparsity", "inputs_sample", "outputs_sparsity", "outputs_sample"}

(* the sample sizes an analyzer is given; 0 is the default, no sampling *)
SampleSizes == {0, 1}

(* the id of a new registration: any id not in use, ids being opaque *)
NewHandle(hooks) ==
    CHOOSE n \in 1..(Cardinality(hooks) + 1) :
        n \notin hooks /\ \A m \in 1..(n - 1) : m \in hooks

IsAnalyzer == obj.cls = "ModuleASAnalyzer"

(* lines 248-278: both hooks are registered, the handles kept *)
ModuleASAnalyzer_enable_hooks(self) ==
    LET pre == NewHandle(self.module_pre_hooks)
        post == NewHandle(self.module_hooks)
    IN  [self EXCEPT !.module_pre_hooks = @ \cup {pre},
                     !.pre_hook_handle = <<pre>>,
                     !.module_hooks = @ \cup {post},
                     !.hook_handle = <<post>>]

(* lines 280-287: the handles held are removed and forgotten *)
ModuleASAnalyzer_disable_hooks(self) ==
    LET a == IF self.pre_hook_handle # PyNone
             THEN [self EXCEPT !.module_pre_hooks =
                                   @ \ {self.pre_hook_handle[1]},
                               !.pre_hook_handle = PyNone]
             ELSE self
    IN  IF a.hook_handle # PyNone
        THEN [a EXCEPT !.module_hooks = @ \ {a.hook_handle[1]},
                       !.hook_handle = PyNone]
        ELSE a

(* enable(), lines 199-202 *)
ModuleASAnalyzer_enable(self) ==
    IF ~self.enabled
    THEN ModuleASAnalyzer_enable_hooks([self EXCEPT !.enabled = TRUE])
    ELSE self

(* disable(), lines 204-207 *)
ModuleASAnalyzer_disable(self) ==
    IF self.enabled
    THEN ModuleASAnalyzer_disable_hooks([self EXCEPT !.enabled = FALSE])
    ELSE self

(* __init__, lines 32-51: the flag is stored as given, then enable() *)
ModuleASAnalyzer(track_inputs_sparsity, track_outputs_sparsity, inputs_sample_size, outputs_sample_size, enabled) ==
    ModuleASAnalyzer_enable(
        [cls |-> "ModuleASAnalyzer",
         track_inputs_sparsity |-> track_inputs_sparsity,
         track_outputs_sparsity |-> track_outputs_sparsity,
         inputs_sample_size |-> inputs_sample_size,
         outputs_sample_size |-> outputs_sample_size,
         enabled |-> enabled,
         inputs_sparsity |-> <<>>,
         inputs_sample |-> <<>>,
         outputs_sparsity |-> <<>>,
         outputs_sample |-> <<>>,
         pre_hook_handle |-> PyNone,
         hook_handle |-> PyNone,
         module_pre_hooks |-> {},
         module_hooks |-> {}])

(* _forward_pre_hook, lines 249-261 *)
forward_pre_hook(self, inp) ==
    LET a == IF self.track_inputs_sparsity
             THEN [self EXCEPT !.inputs_sparsity = Append(@, inp)]
             ELSE self
    IN  IF a.inputs_sample_size > 0
        THEN [a EXCEPT !.inputs_sample = Append(@, inp)]
        ELSE a

(* tensor_sample(tensor, size, dim=division), called at line 273 *)
tensor_sample(tensor, size) == [sample |-> tensor, size |-> size]

(* _forward_hook, lines 263-275 *)
forward_hook(self, out) ==
    LET a == IF self.track_outputs_sparsity
             THEN [self EXCEPT !.outputs_sparsity = Append(@, out)]
             ELSE self
    IN  IF a.outputs_sample_size > 0
        THEN [a EXCEPT !.outputs_sample =
                 Append(@, tensor_sample(out, a.outputs_sample_size))]
        ELSE a

(* a hook runs once for every registration of it *)
RECURSIVE RunHooks(_, _, _, _)
RunHooks(kind, n, self, value) ==
    IF n = 0 THEN self
    ELSE RunHooks(kind, n - 1,
             IF kind = "pre" THEN forward_pre_hook(self, value)
             ELSE forward_hook(self, value), value)

(* clear(), lines 186-197; "None" is the default, no specific type *)
ModuleASAnalyzer_clear(self, specific_result_type) ==
    LET hit(t) == specific_result_type = "None" \/ specific_result_type = t
    IN  [self EXCEPT
            !.inputs_sparsity = IF hit("inputs_sparsity") THEN <<>> ELSE @,
            !.inputs_sample = IF hit("inputs_sample") THEN <<>> ELSE @,
            !.outputs_sparsity = IF hit("outputs_sparsity") THEN <<>> ELSE @,
            !.outputs_sample = IF hit("outputs_sample") THEN <<>> ELSE @]

ModuleASAnalyzer_init(track_inputs_sparsity, track_outputs_sparsity, inputs_sample_size, outputs_sample_size, enabled) ==
    /\ obj' = ModuleASAnalyzer(track_inputs_sparsity, track_outputs_sparsity,
                  inputs_sample_size, outputs_sample_size, enabled)
    /\ ret' = [op |-> "ModuleASAnalyzer.__init__",
               args |-> <<track_inputs_sparsity, track_outputs_sparsity,
                          inputs_sample_size, outputs_sample_size, enabled>>,
               res |-> Return(PyNone)]

Call_enable ==
    /\ IsAnalyzer
    /\ obj' = ModuleASAnalyzer_enable(obj)
    /\ ret' = [op |-> "ModuleASAnalyzer.enable", args |-> <<>>,
               res |-> Return(PyNone)]

Call_disable ==
    /\ IsAnalyzer
    /\ obj' = ModuleASAnalyzer_disable(obj)
    /\ ret' = [op |-> "ModuleASAnalyzer.disable", args |-> <<>>,
               res |-> Return(PyNone)]

Call_clear(specific_result_type) ==
    /\ obj' = ModuleASAnalyzer_clear(obj, specific_result_type)
    /\ ret' = [op |-> "ModuleASAnalyzer.clear",
               args |-> <<specific_result_type>>, res |-> Return(PyNone)]

(* the track_inputs_sparsity setter, lines 74-76 *)
Set_track_inputs_sparsity(value) ==
    /\ obj' = [obj EXCEPT !.track_inputs_sparsity = value]
    /\ ret' = [op |-> "ModuleASAnalyzer.track_inputs_sparsity.setter",
               args |-> <<value>>, res |-> Return(PyNone)]

(* the track_outputs_sparsity setter, lines 82-84 *)
Set_track_outputs_sparsity(value) ==
    /\ obj' = [obj EXCEPT !.track_outputs_sparsity = value]
    /\ ret' = [op |-> "ModuleASAnalyzer.track_outputs_sparsity.setter",
               args |-> <<value>>, res |-> Return(PyNone)]

(* the inputs_sample_size setter, lines 90-92 *)
Set_inputs_sample_size(value) ==
    /\ obj' = [obj EXCEPT !.inputs_sample_size = value]
    /\ ret' = [op |-> "ModuleASAnalyzer.inputs_sample_size.setter",
               args |-> <<value>>, res |-> Return(PyNone)]

(* the outputs_sample_size setter, lines 98-100 *)
Set_outputs_sample_size(value) ==
    /\ obj' = [obj EXCEPT !.outputs_sample_size = value]
    /\ ret' = [op |-> "ModuleASAnalyzer.outputs_sample_size.setter",
               args |-> <<value>>, res |-> Return(PyNone)]

(* one forward pass of the hooked module: the pre-hooks, the module, the
   hooks *)
Module_forward(inp, out) ==
    /\ obj' = RunHooks("post", Cardinality(obj.module_hooks),
                  RunHooks("pre", Cardinality(obj.module_pre_hooks), obj, inp),
                  out)
    /\ ret' = [op |-> "Module.forward", args |-> <<inp>>,
               res |-> Return(out)]

ForwardsLeft ==
    /\ IsAnalyzer
    /\ Len(obj.inputs_sparsity) < MaxForward
    /\ Len(obj.inputs_sample) < MaxForward
    /\ Len(obj.outputs_sparsity) < MaxForward
    /\ Len(obj.outputs_sample) < MaxForward

InitAnalyzer == Init

NextAnalyzer ==
    \/ Fresh /\ \E tis \in BOOLEAN, tos \in BOOLEAN, iss \in SampleSizes,
                   oss \in SampleSizes, enabled \in BOOLEAN :
                     ModuleASAnalyzer_init(tis, tos, iss, oss, enabled)
    \/ Call_enable
    \/ Call_disable
    \/ IsAnalyzer /\ \E t \in ASResultType \cup {"None"} : Call_clear(t)
    \/ IsAnalyzer /\ \E value \in BOOLEAN : Set_track_inputs_sparsity(value)
    \/ IsAnalyzer /\ \E value \in BOOLEAN : Set_track_outputs_sparsity(value)
    \/ IsAnalyzer /\ \E value \in SampleSizes : Set_inputs_sample_size(value)
    \/ IsAnalyzer /\ \E value \in SampleSizes : Set_outputs_sample_size(value)
    \/ ForwardsLeft /\ \E inp \in ActivationSparsities,
                          out \in ActivationSparsities :
                            Module_forward(inp, out)

SpecAnalyzer == InitAnalyzer /\ [][NextAnalyzer]_vars

(* C29: for a ModuleASAnalyzer, after construction with any value of the
   enabled argument and after any sequence of enable() and disable() calls,
   the enabled flag is true if and only if both the forward pre-hook and the
   forward hook are registered on the module, and at most one handle of each
   kind is live at any time. *)
C29_EnabledIffHooked ==
    IsAnalyzer =>
        /\ obj.enabled <=> (obj.module_pre_hooks # {} /\ obj.module_hooks # {})
        /\ Cardinality(obj.module_pre_hooks) <= 1
        /\ Cardinality(obj.module_hooks) <= 1

(* what the code does: the hooks are registered only while the flag is set
   and never twice, and the handles held are the registrations; the flag
   can be set with no hook registered *)
C29_HookedOnlyWhenEnabled ==
    IsAnalyzer =>
        /\ (obj.module_pre_hooks # {} \/ obj.module_hooks # {}) => obj.enabled
        /\ Cardinality(obj.module_pre_hooks) <= 1
        /\ Cardinality(obj.module_hooks) <= 1
        /\ obj.module_pre_hooks = {obj.pre_hook_handle[i] :
                                      i \in DOMAIN obj.pre_hook_handle}
        /\ obj.module_hooks = {obj.hook_handle[i] :
                                  i \in DOMAIN obj.hook_handle}
        /\ (ret.op = "ModuleASAnalyzer.__init__" /\ ret.args[5])
               => obj.enabled /\ obj.module_pre_hooks = {}

---------------------------------------------------------------------------
(* PruningModifierCallback (keras/optim/modifier_pruning.py lines 207-260)
   driven by a training loop: on_train_begin, then batches, each
   on_train_batch_begin, one optimizer step, on_train_batch_end, with
   on_epoch_end at any point. Beside the callback's fields the state holds the
   optimizer's iteration variable and each layer's global_step variable; the
   fields read0, ended and updates are a record of the run: the iteration
   count read by the last on_train_begin, the on_train_batch_end calls
   completed since, and the conditional_update calls of the last batch. *)

MaxIters == 2
MaxBatches == 3

IsCallback == obj.cls = "PruningModifierCallback"

(* __init__, lines 214-217 *)
PruningModifierCallback(prunable_layers, optim_iters) ==
    [cls |-> "PruningModifierCallback",
     prunable_layers |-> prunable_layers,
     optim_iters |-> optim_iters,
     step |-> PyNone,
     global_step |-> [k \in 1..prunable_layers |-> 0],
     pc |-> "new",
     read0 |-> PyNone,
     ended |-> 0,
     updates |-> <<>>]

(* on_train_begin, lines 219-228 *)
PruningModifierCallback_on_train_begin(self) ==
    [self EXCEPT !.step = self.optim_iters,
                 !.global_step = [k \in DOMAIN @ |-> self.optim_iters],
                 !.pc = "idle",
                 !.read0 = self.optim_iters,
                 !.ended = 0,
                 !.updates = <<>>]

(* variant: the layers keep the global_step of the batch before *)
PruningModifierCallback_on_train_batch_begin_stale(self) ==
    [self EXCEPT !.pc = "batch"]

(* on_train_batch_begin, lines 230-239 *)
PruningModifierCallback_on_train_batch_begin(self) ==
    [self EXCEPT !.global_step = [k \in DOMAIN @ |-> self.step],
                 !.pc = "batch"]

(* on_train_batch_end, lines 241-250: conditional_update of every layer's
   mask updater, which reads the layer's global_step, then the increment *)
PruningModifierCallback_on_train_batch_end(self) ==
    [self EXCEPT !.updates = [k \in 1..self.prunable_layers |->
                                 [layer |-> k,
                                  global_step |-> self.global_step[k],
                                  step |-> self.step]],
                 !.step = self.step + 1,
                 !.pc = "idle",
                 !.ended = @ + 1]

PruningModifierCallback_init(prunable_layers, optim_iters) ==
    /\ obj' = PruningModifierCallback(prunable_layers, optim_iters)
    /\ ret' = [op |-> "PruningModifierCallback.__init__",
               args |-> <<prunable_layers, optim_iters>>,
               res |-> Return(PyNone)]

on_train_begin ==
    /\ IsCallback /\ obj.pc \in {"new", "idle"}
    /\ obj' = PruningModifierCallback_on_train_begin(obj)
    /\ ret' = [op |-> "on_train_begin", args |-> <<>>, res |-> Return(PyNone)]

on_train_batch_begin ==
    /\ IsCallback /\ obj.pc = "idle" /\ obj.ended < MaxBatches
    /\ obj.optim_iters < MaxIters + MaxBatches
    /\ obj' = PruningModifierCallback_on_train_batch_begin(obj)
    /\ ret' = [op |-> "on_train_batch_begin", args |-> <<obj.ended>>,
               res |-> Return(PyNone)]

(* the optimizer applies the batch's gradients: iterations is incremented *)
Optimizer_step ==
    /\ IsCallback /\ obj.pc = "batch"
    /\ obj' = [obj EXCEPT !.optim_iters = @ + 1, !.pc = "stepped"]
    /\ ret' = [op |-> "optimizer.apply_gradients", args |-> <<>>,
               res |-> Return(PyNone)]

on_train_batch_end ==
    /\ IsCallback /\ obj.pc = "stepped"
    /\ obj' = PruningModifierCallback_on_train_batch_end(obj)
    /\ ret' = [op |-> "on_train_batch_end", args |-> <<obj.ended>>,
               res |-> Return(PyNone)]

(* on_epoch_end, lines 252-260: apply_masks of every layer; neither the step
   nor a global_step is written *)
on_epoch_end(epoch) ==
    /\ IsCallback /\ obj.pc \in {"idle", "batch", "stepped"}
    /\ ret' = [op |-> "on_epoch_end", args |-> <<epoch>>,
               res |-> Return(PyNone)]
    /\ UNCHANGED obj

InitTrain == Init

NextTrain ==
    \/ Fresh /\ \E prunable_layers \in 1..MaxLayers, optim_iters \in 0..MaxIters :
           PruningModifierCallback_init(prunable_layers, optim_iters)
    \/ on_train_begin
    \/ on_train_batch_begin
    \/ Optimizer_step
    \/ on_train_batch_end
    \/ \E epoch \in Epochs : on_epoch_end(epoch)

SpecTrain == InitTrain /\ [][NextTrain]_vars

(* C30: after on_train_begin, for any sequence of on_train_batch_begin /
   on_train_batch_end pairs with on_epoch_end interleaved anywhere, the step
   counter equals the optimizer iteration count read at train begin plus the
   number of completed on_train_batch_end calls, and at every
   conditional_update call each prunable layer's global_step equals the
   callback's step counter before that batch's increment. *)
C30_StepCountsBatches ==
    (IsCallback /\ obj.pc # "new") =>
        /\ obj.step = obj.read0 + obj.ended
        /\ \A k \in DOMAIN obj.updates :
               /\ obj.updates[k].global_step = obj.updates[k].step
               /\ obj.updates[k].step = obj.step - 1
        /\ obj.ended > 0 => Len(obj.updates) = obj.prunable_layers

C30_Witness ==
    /\ IsCallback
    /\ ret.op = "on_train_batch_end"
    /\ obj.prunable_layers = 2
    /\ obj.read0 = 1
    /\ obj.ended = 2
    /\ obj.step = 3
    /\ obj.optim_iters = 3
    /\ obj.updates = <<[layer |-> 1, global_step |-> 2, step |-> 2],
                       [layer |-> 2, global_step |-> 2, step |-> 2]>>

====
